---- MODULE Spec2Model ----
(***************************************************************************)
(* A model of the STS replay core: the topology graph                      *)
(* (sts/topology/graph.py) and the replay event model                      *)
(* (sts/replay_event.py).                                                  *)
(*                                                                         *)
(* Python strings are modelled as sequences of one-character strings so    *)
(* that substring tests (`str(sid) not in name`), formatting               *)
(* ("%s-%s" % (sid, port_no)) and tuple(string) are computed, not assumed. *)
(***************************************************************************)
EXTENDS Integers, Sequences, FiniteSets, TLC

VARIABLES
  nodes,      \* Graph._nodes : node id -> attrs (ntype, obj)
  edges,      \* Graph._edges : <<node1, node2>> -> attrs (etype, obj, bidir)
  pre,        \* history: the graph as it was before the last operation
  last,       \* history: the last TopologyGraph operation and its outcome
  label_gen,      \* Event._label_gen : the value its next() returns
  all_label_ids,  \* Event._all_label_ids
  labels,     \* the labels of the events constructed so far, in order
  cur,        \* the event constructed last
  wire,       \* the JSON object written last by to_json
  orig,       \* history: the event that `wire` encodes
  elast,      \* history: the last operation on events
  sim,        \* the simulation: its OpenFlowBuffer and the one of each switch
  released,   \* history: the messages that schedule released, in order
  trace,      \* the events being replayed, <<>> before a trace is loaded
  pc,         \* the position of the replayer in the trace
  tries,      \* the calls of proceed that returned False for the event at pc
  periods,    \* the timeout periods spent so far
  nobserved,  \* the messages the simulation has produced so far
  rlast,      \* history: the last step of the replay
  tracker,    \* topology.connectivity_tracker
  tlast,      \* history: the last operation on the connectivity tracker
  connections,       \* io_worker of each switch<->controller connection
  sync,              \* simulation.controller_sync_callback
  violation_tracker, \* simulation.violation_tracker
  flags,             \* the fail_to_interactive attributes of the simulation
  slast       \* history: the last proceed() on the simulation

gvars == <<nodes, edges, pre, last>>
evars == <<label_gen, all_label_ids, labels, cur, wire, orig, elast>>
rvars == <<sim, released, trace, pc, tries, periods, nobserved, rlast>>
tvars == <<tracker, tlast>>
svars == <<connections, sync, violation_tracker, flags, slast>>
vars == <<nodes, edges, pre, last, label_gen, all_label_ids, labels, cur, wire, orig, elast,
          sim, released, trace, pc, tries, periods, nobserved, rlast,
          tracker, tlast, connections, sync, violation_tracker, flags, slast>>

(***************************************************************************)
(* Strings                                                                 *)
(***************************************************************************)
Digits == <<"0", "1", "2", "3", "4", "5", "6", "7", "8", "9">>

\* str(n) for a one-digit integer
Str(n) == <<Digits[n + 1]>>

\* An int used as a node id; 1 and "1" are different dictionary keys.
IntId(n) == <<"#">> \o Str(n)

\* Python `sub in s` for strings
Contains(sub, s) ==
  \E i \in 0..(Len(s) - Len(sub)) : SubSeq(s, i + 1, i + Len(sub)) = sub

\* Python None as a vertex id
None == <<"None">>

(***************************************************************************)
(* NodeType / EdgeType                                                     *)
(***************************************************************************)
HOST == "host"
SWITCH == "switch"
PORT == "PORT"
INTERFACE == "INTERFACE"
LINK == "link"
INTERNAL_LINK == "internal_link"

NoObj == "none"

\* attrs of an INTERNAL_LINK edge: {etype: INTERNAL_LINK}
InternalAttrs == [etype |-> INTERNAL_LINK, obj |-> NoObj, bidir |-> FALSE]

\* attrs of a LINK edge: {obj: link, etype: LINK, bidir: bidir}
LinkAttrs(lid, bidir) == [etype |-> LINK, obj |-> lid, bidir |-> bidir]

(***************************************************************************)
(* The entities handed to the graph (the mocks of graph_test.py)           *)
(***************************************************************************)
\* A port or an interface: an object with a name and a port_no
PortObj(name, no) == [name |-> name, port_no |-> no]

\* _get_switch(sid, num_ports): ports[i].name = str(i), port_no = i
SwitchObj(sid, num_ports) ==
  [name |-> <<"s">> \o Str(sid),
   ports |-> [i \in 1..num_ports |-> PortObj(Str(i), i)]]

\* A host whose interfaces carry no name: their node id is the bare port_no
UnnamedHostObj(hid) ==
  [name |-> <<"h">> \o Str(hid), interfaces |-> <<PortObj(<<>>, 1)>>]

\* A host with two interfaces: one without a name (node id: its port_no)
\* and one that is named like port 1 of switch s1
ShadowHostObj(hid) ==
  [name |-> <<"h">> \o Str(hid),
   interfaces |-> <<PortObj(<<>>, 1), PortObj(<<"s", "1", "-", "1">>, 2)>>]

\* A switch given by its name only (graph.remove_switch(s1.name)): it has
\* no `ports` attribute, getattr(switch, 'ports', {}) is empty.
BareSwitch(sid) == [name |-> <<"s">> \o Str(sid), ports |-> <<>>]

\* A link object: _get_link_nodes reads (start_node, start_port, end_node,
\* end_port) or (node1, port1, node2, port2); both give two (node, port)
\* pairs.  lid is the identity of the object.
LinkObj(lid, n1, p1, n2, p2) ==
  [lid |-> lid, node1 |-> n1, port1 |-> p1, node2 |-> n2, port2 |-> p2]

S1 == SwitchObj(1, 1)
S2 == SwitchObj(2, 1)
H1 == UnnamedHostObj(1)
H2 == ShadowHostObj(2)

\* the switches and hosts that are added to the graph
Switches == {S1, S2}
Hosts == {H1, H2}

\* what remove_switch is called with: a switch object or a bare name
SwitchArgs == Switches \cup {BareSwitch(1)}

Links ==
  { LinkObj("NL1", S1, S1.ports[1], S2, S2.ports[1]),
    LinkObj("NL2", S1, S1.ports[1], S2, S2.ports[1]),
    LinkObj("NL3", S2, S2.ports[1], S1, S1.ports[1]),
    LinkObj("AL1", H1, H1.interfaces[1], S1, S1.ports[1]) }

\* what has_link is asked about: the links above, and a link from s1 whose
\* start port carries no name, so that its interface-scheme id is the bare
\* port_no, the id of the unnamed interface of a host
LinkArgs ==
  Links \cup { LinkObj("XL1", S1, PortObj(<<>>, 1), S2, S2.ports[1]) }

(***************************************************************************)
(* class Graph                                                             *)
(***************************************************************************)
EmptyFn == [x \in {} |-> x]

EmptyGraph == [nodes |-> EmptyFn, edges |-> EmptyFn]

\* the outcome of a call: the graph it leaves and whether it returned
\* normally (ok) or raised (AssertionError / KeyError)
Ret(g, ok) == [g |-> g, ok |-> ok]

\* Graph.has_node
has_node(g, node) == node \in DOMAIN g.nodes

\* Graph.has_edge
has_edge(g, node1, node2) == <<node1, node2>> \in DOMAIN g.edges

\* Graph.add_node: self._nodes[node] = attrs
add_node(g, node, attrs) ==
  [g EXCEPT !.nodes = [n \in DOMAIN g.nodes \cup {node} |->
                          IF n = node THEN attrs ELSE g.nodes[n]]]

\* attrs of a node that add_edge creates on the fly
NoAttrs == [ntype |-> "none", obj |-> NoObj]

\* add_edge that keeps the attrs of an edge that is already there
add_edge_keeps_old(g, node1, node2, attrs) ==
  LET g1 == IF has_node(g, node1) THEN g ELSE add_node(g, node1, NoAttrs)
      g2 == IF has_node(g1, node2) THEN g1 ELSE add_node(g1, node2, NoAttrs)
  IN [g2 EXCEPT !.edges = [e \in DOMAIN g2.edges \cup {<<node1, node2>>} |->
                              IF e \in DOMAIN g2.edges THEN g2.edges[e] ELSE attrs]]

\* Graph.add_edge: adds the missing end nodes, then sets
\* self._edges[node1][node2] = attrs (replacing what was there)
add_edge(g, node1, node2, attrs) ==
  LET g1 == IF has_node(g, node1) THEN g ELSE add_node(g, node1, NoAttrs)
      g2 == IF has_node(g1, node2) THEN g1 ELSE add_node(g1, node2, NoAttrs)
  IN [g2 EXCEPT !.edges = [e \in DOMAIN g2.edges \cup {<<node1, node2>>} |->
                              IF e = <<node1, node2>> THEN attrs ELSE g2.edges[e]]]

\* Graph.remove_edge
remove_edge(g, node1, node2) ==
  IF ~has_edge(g, node1, node2) THEN Ret(g, FALSE)
  ELSE Ret([g EXCEPT !.edges = [e \in DOMAIN g.edges \ {<<node1, node2>>} |->
                                   g.edges[e]]], TRUE)

\* Graph.out_edges / Graph.in_edges
out_edges(g, node) == {e \in DOMAIN g.edges : e[1] = node}
in_edges(g, node) == {e \in DOMAIN g.edges : e[2] = node}

\* removes a set of existing edges (a loop of remove_edge calls)
remove_edges(g, es) ==
  [g EXCEPT !.edges = [e \in DOMAIN g.edges \ es |-> g.edges[e]]]

\* a remove_node without the assertion on the edges of the node
remove_node_unasserted(g, node, with_edges) ==
  IF ~has_node(g, node) THEN Ret(g, FALSE)
  ELSE LET es == {e \in DOMAIN g.edges : node \in {e[1], e[2]}}
           g1 == IF with_edges THEN remove_edges(g, es) ELSE g
       IN Ret([g1 EXCEPT !.nodes = [n \in DOMAIN g1.nodes \ {node} |-> g1.nodes[n]]],
              TRUE)

\* Graph.remove_node(node, remove_edges): with_edges is its remove_edges
remove_node(g, node, with_edges) ==
  IF ~has_node(g, node) THEN Ret(g, FALSE)
  ELSE LET es == {e \in DOMAIN g.edges : node \in {e[1], e[2]}}
       IN IF ~with_edges /\ es # {} THEN Ret(g, FALSE)
          ELSE LET g1 == remove_edges(g, es)
               IN Ret([g1 EXCEPT !.nodes = [n \in DOMAIN g1.nodes \ {node} |->
                                              g1.nodes[n]]],
                      TRUE)

(***************************************************************************)
(* class TopologyGraph: node ids                                           *)
(***************************************************************************)
\* _host_node_id / _switch_node_id: getattr(x, 'name', ...)
_host_node_id(host) == host.name
_switch_node_id(switch) == switch.name

\* _interface_node_id: the name, or the port_no when the name is empty
_interface_node_id(interface) ==
  IF interface.name = <<>> THEN IntId(interface.port_no) ELSE interface.name

\* _port_node_id: the port's name when it contains the switch id, otherwise
\* "<sid>-<port_no>"
_port_node_id(switch, port) ==
  LET sid == _switch_node_id(switch)
  IN IF port.name = <<>> \/ ~Contains(sid, port.name)
       THEN sid \o <<"-">> \o Str(port.port_no)
       ELSE port.name

\* _interfaces_iterator: [(node id, interface)] in list order
_interfaces_iterator(host) ==
  [i \in 1..Len(host.interfaces) |->
     [id |-> _interface_node_id(host.interfaces[i]), obj |-> host.interfaces[i]]]

\* _ports_iterator: [(node id, port)] over switch.ports (port_no -> port),
\* in key order
_ports_iterator(switch) ==
  LET sid == _switch_node_id(switch)
  IN [k \in 1..Len(switch.ports) |->
        [id |-> IF switch.ports[k].name = <<>> \/ ~Contains(sid, switch.ports[k].name)
                  THEN sid \o <<"-">> \o Str(k)
                  ELSE switch.ports[k].name,
         obj |-> switch.ports[k]]]

\* is_host / is_switch / is_port / is_interface on the attrs of a node
is_type(g, node, ntype) == has_node(g, node) /\ g.nodes[node].ntype = ntype

\* is_link on the attrs of an edge
is_link(g, e) == g.edges[e].etype = LINK

\* guess_vertex_id that probes the interface-scheme id first
guess_vertex_id_iface_first(g, node, vertex) ==
  LET v_port == _port_node_id(node, vertex)
      v_iface == _interface_node_id(vertex)
  IN IF is_type(g, v_iface, INTERFACE) THEN v_iface
     ELSE IF is_type(g, v_port, PORT) THEN v_port
     ELSE None

\* guess_vertex_id inside _get_link_nodes: the port-scheme id if it is a
\* PORT node, else the interface-scheme id if it is an INTERFACE node, else
\* None
guess_vertex_id(g, node, vertex) ==
  LET v_port == _port_node_id(node, vertex)
      v_iface == _interface_node_id(vertex)
  IN IF is_type(g, v_port, PORT) THEN v_port
     ELSE IF is_type(g, v_iface, INTERFACE) THEN v_iface
     ELSE None

\* _get_link_nodes
_get_link_nodes(g, link) ==
  <<guess_vertex_id(g, link.node1, link.port1),
    guess_vertex_id(g, link.node2, link.port2)>>

(***************************************************************************)
(* class TopologyGraph: mutations.  Each returns Ret(graph, ok); a call    *)
(* that raises half way keeps what it had already changed.                 *)
(***************************************************************************)
\* _remove_node(node, ntype)
_remove_node(g, node, ntype) ==
  IF ~has_node(g, node) THEN Ret(g, FALSE)
  ELSE IF g.nodes[node].ntype # ntype THEN Ret(g, FALSE)
  ELSE LET g1 == remove_edges(g, out_edges(g, node))
           g2 == remove_edges(g1, in_edges(g1, node))
       IN remove_node(g2, node, TRUE)

\* remove_interface / remove_port
remove_interface(g, port_no) == _remove_node(g, port_no, INTERFACE)
remove_port(g, port_no) == _remove_node(g, port_no, PORT)

\* the loop `for port_no, _ in ...: self.remove_interface(port_no)` (or
\* remove_port); stops at the first call that raises
RECURSIVE remove_each(_, _, _)
remove_each(g, items, ntype) ==
  IF items = <<>> THEN Ret(g, TRUE)
  ELSE LET r == _remove_node(g, Head(items).id, ntype)
       IN IF r.ok THEN remove_each(r.g, Tail(items), ntype) ELSE r

\* the loop of add_host / add_switch over the interfaces / ports: add the
\* node, then the two INTERNAL_LINK edges
RECURSIVE attach_each(_, _, _, _)
attach_each(g, owner, items, ntype) ==
  IF items = <<>> THEN g
  ELSE LET it == Head(items)
           g1 == add_node(g, it.id, [ntype |-> ntype, obj |-> it.obj])
           g2 == add_edge(g1, owner, it.id, InternalAttrs)
           g3 == add_edge(g2, it.id, owner, InternalAttrs)
       IN attach_each(g3, owner, Tail(items), ntype)

\* add_host
add_host(g, host) ==
  LET hid == _host_node_id(host)
  IN IF has_node(g, hid) THEN Ret(g, FALSE)
     ELSE Ret(attach_each(add_node(g, hid, [ntype |-> HOST, obj |-> host]),
                          hid, _interfaces_iterator(host), INTERFACE), TRUE)

\* has_host: has_node(hid) and is_host(hid, get_host_attrs(hid)); when the
\* node is not a HOST get_host_attrs raises, which fails the caller as well
has_host(g, host) == is_type(g, _host_node_id(host), HOST)

\* has_switch
has_switch(g, switch) == is_type(g, _switch_node_id(switch), SWITCH)

\* remove_host that forgets the loop over the interfaces
remove_host_keeps_interfaces(g, host) ==
  IF ~has_host(g, host) THEN Ret(g, FALSE)
  ELSE _remove_node(g, _host_node_id(host), HOST)

\* remove_host: the interfaces are those of the stored host object
remove_host(g, host) ==
  LET hid == _host_node_id(host)
  IN IF ~has_host(g, host) THEN Ret(g, FALSE)
     ELSE LET r == remove_each(g, _interfaces_iterator(g.nodes[hid].obj), INTERFACE)
          IN IF r.ok THEN _remove_node(r.g, hid, HOST) ELSE r

\* add_switch
add_switch(g, switch) ==
  LET sid == _switch_node_id(switch)
  IN IF has_node(g, sid) THEN Ret(g, FALSE)
     ELSE Ret(attach_each(add_node(g, sid, [ntype |-> SWITCH, obj |-> switch]),
                          sid, _ports_iterator(switch), PORT), TRUE)

\* remove_switch that forgets the loop over the ports
remove_switch_keeps_ports(g, switch) ==
  IF ~has_switch(g, switch) THEN Ret(g, FALSE)
  ELSE _remove_node(g, _switch_node_id(switch), SWITCH)

\* remove_switch: the ports are those of the stored switch object
remove_switch(g, switch) ==
  LET sid == _switch_node_id(switch)
  IN IF ~has_switch(g, switch) THEN Ret(g, FALSE)
     ELSE LET r == remove_each(g, _ports_iterator(g.nodes[sid].obj), PORT)
          IN IF r.ok THEN _remove_node(r.g, sid, SWITCH) ELSE r

\* add_link without its four asserts
add_link_unchecked(g, link, bidir) ==
  LET vs == _get_link_nodes(g, link)
  IN IF bidir
       THEN Ret(add_edge(add_edge(g, vs[1], vs[2], LinkAttrs(link.lid, bidir)),
                         vs[2], vs[1], LinkAttrs(link.lid, bidir)), TRUE)
       ELSE Ret(add_edge(g, vs[1], vs[2], LinkAttrs(link.lid, bidir)), TRUE)

\* add_link
add_link(g, link, bidir) ==
  LET vs == _get_link_nodes(g, link)
      src_node == vs[1]
      dst_node == vs[2]
  IN IF src_node = None \/ dst_node = None THEN Ret(g, FALSE)
     ELSE IF ~has_node(g, src_node) \/ ~has_node(g, dst_node) THEN Ret(g, FALSE)
     ELSE IF bidir
       THEN Ret(add_edge(add_edge(g, src_node, dst_node, LinkAttrs(link.lid, bidir)),
                         dst_node, src_node, LinkAttrs(link.lid, bidir)), TRUE)
       ELSE Ret(add_edge(g, src_node, dst_node, LinkAttrs(link.lid, bidir)), TRUE)

\* get_link without its assert: the 'obj' of whatever edge is there
get_link_unasserted(g, src_node, dst_node) ==
  IF ~has_edge(g, src_node, dst_node) THEN "None"
  ELSE g.edges[<<src_node, dst_node>>].obj

\* get_link: the stored link, "None" when there is no edge, "Error" when
\* the edge is not a LINK (the assert)
get_link(g, src_node, dst_node) ==
  IF ~has_edge(g, src_node, dst_node) THEN "None"
  ELSE IF ~is_link(g, <<src_node, dst_node>>) THEN "Error"
  ELSE g.edges[<<src_node, dst_node>>].obj

\* has_link: True / False, or "Error" when get_link raises
has_link(g, link) ==
  LET vs == _get_link_nodes(g, link)
      l == get_link(g, vs[1], vs[2])
  IN IF l = "Error" THEN "Error" ELSE IF l = "None" THEN "False" ELSE "True"

\* remove_link that removes one direction only
remove_link_one_way(g, link) ==
  LET vs == _get_link_nodes(g, link)
  IN IF has_link(g, link) # "True" THEN Ret(g, FALSE)
     ELSE remove_edge(g, vs[1], vs[2])

\* remove_link
remove_link(g, link) ==
  LET vs == _get_link_nodes(g, link)
      src_vertex == vs[1]
      dst_vertex == vs[2]
  IN IF has_link(g, link) # "True" THEN Ret(g, FALSE)
     ELSE LET bidir == g.edges[<<src_vertex, dst_vertex>>].bidir
              r == remove_edge(g, src_vertex, dst_vertex)
          IN IF bidir /\ has_edge(r.g, dst_vertex, src_vertex)
               THEN remove_edge(r.g, dst_vertex, src_vertex)
               ELSE r

(***************************************************************************)
(* class TopologyGraph: queries                                            *)
(***************************************************************************)
\* links_iter: one entry per LINK edge, (src_port, dst_port) of it
links_iter(g) == {e \in DOMAIN g.edges : is_link(g, e)}

\* links: the list [link['obj'] for ... in links_iter(True)], each entry
\* under the edge it comes from (the order of the list is that of a dict)
links(g) == [e \in links_iter(g) |-> g.edges[e].obj]

\* the values of a list
Items(l) == {l[k] : k \in DOMAIN l}

\* get_switch_links(switch): for every port of the switch object passed
\* in, _get_connected_edges (which asserts that the node exists), then the
\* stored link of every LINK edge among them.  `links` holds one entry per
\* list element: <<port key, direction, edge>>.
get_switch_links(g, switch) ==
  LET ports == _ports_iterator(switch)
  IN IF \E k \in 1..Len(ports) : ~has_node(g, ports[k].id)
       THEN [ok |-> FALSE, links |-> {}]
       ELSE [ok |-> TRUE,
             links |-> UNION {{<<k, "out", e>> : e \in {x \in out_edges(g, ports[k].id) : is_link(g, x)}}
                                \cup
                              {<<k, "in", e>> : e \in {x \in in_edges(g, ports[k].id) : is_link(g, x)}}
                                : k \in 1..Len(ports)}]

(***************************************************************************)
(* Python values, tagged with their type.  A string is a sequence of       *)
(* characters; a string that the code never takes apart is written as one  *)
(* token.                                                                  *)
(***************************************************************************)
PInt(n) == [t |-> "int", v |-> n]
PStr(s) == [t |-> "str", v |-> s]
PBool(b) == [t |-> "bool", v |-> b]
PNone == [t |-> "NoneType", v |-> 0]
PTuple(s) == [t |-> "tuple", v |-> s]
PList(s) == [t |-> "list", v |-> s]
PDict(d) == [t |-> "dict", v |-> d]

\* a function object, known by its code
PFunction(code) == [t |-> "function", v |-> code]

\* SyncTime(seconds, microSeconds), a namedtuple
SyncTime(seconds, microSeconds) == [t |-> "SyncTime", v |-> <<seconds, microSeconds>>]

\* OFFingerprint(field2value) / DPFingerprint(field2value): an object that
\* wraps the dict, to_dict() gives it back, equal when the dicts are equal
OFFingerprint(d) == [t |-> "OFFingerprint", v |-> d]
DPFingerprint(d) == [t |-> "DPFingerprint", v |-> d]
to_dict(f) == f.v

\* what a raising call returns
Raised == [t |-> "raised", v |-> 0]

\* tuple(x): of a list or tuple its items, of a string its characters
tuple(x) ==
  CASE x.t \in {"list", "tuple", "SyncTime"} -> PTuple(x.v)
    [] x.t = "str" -> PTuple([i \in 1..Len(x.v) |-> PStr(<<x.v[i]>>)])
    [] OTHER -> Raised

\* list(x)
list(x) ==
  CASE x.t \in {"list", "tuple", "SyncTime"} -> PList(x.v)
    [] x.t = "str" -> PList([i \in 1..Len(x.v) |-> PStr(<<x.v[i]>>)])
    [] OTHER -> Raised

\* int(x) of an int or of a one-digit string
int(x) ==
  CASE x.t = "int" -> x
    [] x.t = "str" /\ Len(x.v) = 1 /\ (\E n \in 0..9 : Str(n) = x.v) ->
         PInt(CHOOSE n \in 0..9 : Str(n) = x.v)
    [] OTHER -> Raised

\* json.loads(json.dumps(x)): tuples, namedtuples and lists become lists,
\* at every depth; Fingerprint objects are not serialisable
RECURSIVE json(_)
json(x) ==
  CASE x.t \in {"list", "tuple", "SyncTime"} ->
         PList([i \in 1..Len(x.v) |-> json(x.v[i])])
    [] x.t \in {"OFFingerprint", "DPFingerprint", "function"} -> Raised
    [] OTHER -> x

\* dictify_fingerprint: Fingerprint objects at the top level of the tuple
\* are replaced by their dict
dictify_fingerprint(fp) ==
  PTuple([i \in 1..Len(fp.v) |->
            IF fp.v[i].t \in {"OFFingerprint", "DPFingerprint"}
              THEN to_dict(fp.v[i]) ELSE fp.v[i]])

\* a dict (or a JSON object) with one more key
With(d, k, x) == [key \in DOMAIN d \cup {k} |-> IF key = k THEN x ELSE d[key]]

\* a dict without a key
Without(d, k) == [key \in DOMAIN d \ {k} |-> d[key]]

(***************************************************************************)
(* Event classes (sts/replay_event.py).  An event is its class and its     *)
(* __dict__.                                                               *)
(***************************************************************************)
InputClasses ==
  {"SwitchFailure", "LinkFailure", "ControllerFailure", "WaitTime",
   "ControlChannelBlock", "NOPInput", "DataplaneDrop", "CheckInvariants",
   "PingEvent"}

\* config.invariant_checks.name_to_invariant_check: the names it knows
name_to_invariant_check ==
  {"InvariantChecker.check_correspondence", "InvariantChecker.check_connectivity"}

ControlMessageClasses == {"ControlMessageSend", "ControlMessageReceive", "ProcessFlowMod"}

InternalClasses ==
  ControlMessageClasses \cup {"ControllerStateChange", "DeterministicValue"}

\* the prefix that InputEvent / InternalEvent hand to Event.__init__
Prefix(cls) == IF cls \in InternalClasses THEN <<"i">> ELSE <<"e">>

\* label_id: int(label[1:])
label_id(label) == int(PStr(Tail(label))).v

\* the first id the generator returns that is not registered:
\* `while label_id in Event._all_label_ids: label_id = next()`
RECURSIVE FirstFree(_, _)
FirstFree(n, ids) == IF n \in ids THEN FirstFree(n + 1, ids) ELSE n

\* an Event.__init__ that takes what the generator returns first
Event_label_unchecked(prefix, label, gen, ids) ==
  IF label = None
    THEN [label |-> prefix \o Str(gen), label_gen |-> gen + 1,
          all_label_ids |-> ids \cup {gen}]
    ELSE [label |-> label, label_gen |-> gen,
          all_label_ids |-> ids \cup {label_id(label)}]

\* Event.__init__, the label: [label, label_gen, all_label_ids] after it
Event_label(prefix, label, gen, ids) ==
  IF label = None
    THEN LET n == FirstFree(gen, ids)
         IN [label |-> prefix \o Str(n), label_gen |-> n + 1,
             all_label_ids |-> ids \cup {n}]
    ELSE [label |-> label, label_gen |-> gen,
          all_label_ids |-> ids \cup {label_id(label)}]

\* Event.__init__, the attributes
Event_init(label, logical_round, event_time, prunable) ==
  ("label" :> PStr(label)) @@ ("logical_round" :> logical_round) @@
  ("event_time" :> event_time) @@ ("dependent_labels" :> PList(<<>>)) @@
  ("prunable" :> PBool(prunable)) @@ ("timed_out" :> PBool(FALSE))

\* Event.__hash__: the hash of the label (a function of the label alone)
__hash__(e) == e.dict["label"]

\* an equality that compares every attribute of the two events
eq_by_all_attributes(e, other) ==
  IF e.class # other.class THEN FALSE ELSE e.dict = other.dict

\* Event.__eq__
__eq__(e, other) ==
  IF e.class # other.class THEN FALSE
  ELSE e.dict["label"] = other.dict["label"]

\* Event.__ne__
__ne__(e, other) == ~__eq__(e, other)

\* event.<name> = value on an event (an instance attribute of __init__)
setattr(e, name, value) == [e EXCEPT !.dict = With(e.dict, name, value)]

\* InternalEvent.__init__
InternalEvent_init(label, logical_round, event_time, timeout_disallowed) ==
  With(Event_init(label, logical_round, event_time, FALSE),
       "timeout_disallowed", timeout_disallowed)

\* ControlMessageBase.__init__, the fingerprint: a list (from JSON) is
\* rebuilt as (class, OFFingerprint, dpid, tuple(controller id)); a dict
\* or any other non-tuple is the OFFingerprint of a direct construction
ControlMessage_fingerprint(cls, a) ==
  LET f == a["fingerprint"]
      f1 == IF f.t = "list"
              THEN IF tuple(f.v[4]) = Raised THEN Raised
                   ELSE PTuple(<<f.v[1], OFFingerprint(f.v[2]), f.v[3], tuple(f.v[4])>>)
              ELSE f
  IN IF f1 = Raised THEN Raised
     ELSE IF f1.t = "dict" \/ f1.t # "tuple"
       THEN PTuple(<<PStr(<<cls>>), OFFingerprint(f1), a["dpid"], a["controller_id"]>>)
       ELSE f1

\* ControllerStateChange.__init__, the fingerprint
StateChange_fingerprint(cls, a) ==
  LET f == a["fingerprint"]
      f1 == IF f.t = "str" THEN PTuple(<<PStr(<<cls>>), f>>) ELSE f
  IN IF f1.t = "list" THEN tuple(f1) ELSE f1

\* DataplaneDrop.__init__, the fingerprint
DataplaneDrop_fingerprint(cls, a) ==
  LET f == a["fingerprint"]
      f1 == IF f.v[1] # PStr(<<cls>>) THEN PList(<<PStr(<<cls>>)>> \o f.v) ELSE f
  IN IF f1.t = "list"
       THEN PTuple(<<f1.v[1], DPFingerprint(f1.v[2]), f1.v[3], f1.v[4]>>)
       ELSE f1

\* the constructors: cls(**a) with label `label`; the __dict__ they leave,
\* or Raised
init(cls, a, label) ==
  LET base == Event_init(label, a["logical_round"], a["event_time"], TRUE)
      ibase == InternalEvent_init(label, a["logical_round"], a["event_time"],
                                  a["timeout_disallowed"])
  IN CASE cls = "SwitchFailure" -> With(base, "dpid", a["dpid"])
       [] cls = "LinkFailure" ->
            With(With(With(With(base, "start_dpid", a["start_dpid"]),
                           "start_port_no", a["start_port_no"]),
                      "end_dpid", a["end_dpid"]),
                 "end_port_no", a["end_port_no"])
       [] cls = "ControllerFailure" -> With(base, "controller_id", a["controller_id"])
       [] cls = "WaitTime" -> With(base, "wait_time", a["wait_time"])
       [] cls = "ControlChannelBlock" ->
            With(With(base, "dpid", a["dpid"]), "controller_id", a["controller_id"])
       [] cls = "NOPInput" -> base
       [] cls = "CheckInvariants" ->
            LET n == a["invariant_check_name"]
            IN IF n.t # "str"
                 THEN With(With(base, "legacy_invariant_check", PBool(TRUE)),
                           "invariant_check", n)
               ELSE IF n.v[1] \notin name_to_invariant_check THEN Raised
               ELSE With(With(With(base, "legacy_invariant_check", PBool(FALSE)),
                              "invariant_check_name", n),
                         "invariant_check", PFunction(n.v[1]))
       [] cls = "PingEvent" ->
            With(With(Event_init(label, a["logical_round"], a["event_time"],
                                 IF "prunable" \in DOMAIN a THEN a["prunable"].v ELSE FALSE),
                      "src_host_id", a["src_host_id"]),
                 "dst_host_id", a["dst_host_id"])
       [] cls = "InvariantViolation" ->
            LET v == a["violations"]
            IN IF Len(v.v) = 0 THEN Raised
               ELSE With(With(base, "violations", IF v.t = "str" THEN PList(<<v>>) ELSE v),
                         "persistent",
                         IF "persistent" \in DOMAIN a THEN a["persistent"] ELSE PBool(FALSE))
       [] cls = "DataplaneDrop" ->
            With(With(With(With(base, "_fingerprint", DataplaneDrop_fingerprint(cls, a)),
                           "passive", a["passive"]),
                      "host_id", a["host_id"]),
                 "dpid", a["dpid"])
       [] cls \in ControlMessageClasses ->
            IF ControlMessage_fingerprint(cls, a) = Raised THEN Raised
            ELSE With(With(With(With(With(With(ibase, "dpid", a["dpid"]),
                                          "controller_id", a["controller_id"]),
                                     "b64_packet", a["b64_packet"]),
                                "_fingerprint", ControlMessage_fingerprint(cls, a)),
                           "ignore_whitelisted_packets", PBool(FALSE)),
                      "pass_through_sends", PBool(FALSE))
       [] cls = "ControllerStateChange" ->
            With(With(With(With(ibase, "controller_id", a["controller_id"]),
                           "_fingerprint", StateChange_fingerprint(cls, a)),
                      "name", a["name"]),
                 "value", IF a["value"].t = "list" THEN tuple(a["value"]) ELSE a["value"])
       [] cls = "DeterministicValue" ->
            With(With(With(ibase, "controller_id", a["controller_id"]),
                      "name", a["name"]),
                 "value", IF a["name"] = PStr(<<"gettimeofday">>)
                            THEN SyncTime(a["value"].v[1], a["value"].v[2])
                          ELSE IF a["value"].t = "list" THEN tuple(a["value"])
                          ELSE a["value"])

\* every class with the fingerprint of Event: the class name alone
fingerprint_class_only(e) == PTuple(<<PStr(<<e.class>>)>>)

\* the fingerprint property of each class
fingerprint(e) ==
  LET c == PStr(<<e.class>>)
      d == e.dict
  IN CASE e.class = "SwitchFailure" -> PTuple(<<c, d["dpid"]>>)
       [] e.class = "LinkFailure" ->
            PTuple(<<c, d["start_dpid"], d["start_port_no"], d["end_dpid"], d["end_port_no"]>>)
       [] e.class = "ControllerFailure" -> PTuple(<<c, d["controller_id"]>>)
       [] e.class = "ControlChannelBlock" -> PTuple(<<c, d["dpid"], d["controller_id"]>>)
       [] e.class = "PingEvent" -> PTuple(<<c, d["src_host_id"], d["dst_host_id"]>>)
       [] e.class = "DataplaneDrop" -> d["_fingerprint"]
       [] e.class \in ControlMessageClasses -> d["_fingerprint"]
       [] e.class = "ControllerStateChange" ->
            tuple(PList(list(d["_fingerprint"]).v \o <<d["controller_id"]>>))
       [] OTHER -> PTuple(<<c>>)

\* Event.to_json: a copy of __dict__ with `class` and the dictified
\* fingerprint, without `_fingerprint`, written and read back as JSON
Event_to_json(e) ==
  LET fields == With(With(e.dict, "class", PStr(<<e.class>>)),
                     "fingerprint", dictify_fingerprint(fingerprint(e)))
      kept == IF "_fingerprint" \in DOMAIN fields
                THEN Without(fields, "_fingerprint") ELSE fields
  IN IF \E k \in DOMAIN kept : json(kept[k]) = Raised THEN Raised
     ELSE [k \in DOMAIN kept |-> json(kept[k])]

\* DataplaneDrop.to_json
DataplaneDrop_to_json(e) ==
  LET f == fingerprint(e)
      fields == With(With(e.dict, "class", PStr(<<e.class>>)),
                     "fingerprint",
                     PTuple(<<f.v[1], to_dict(f.v[2]), f.v[3], f.v[4]>>))
      kept == Without(fields, "_fingerprint")
  IN IF \E k \in DOMAIN kept : json(kept[k]) = Raised THEN Raised
     ELSE [k \in DOMAIN kept |-> json(kept[k])]

\* CheckInvariants.to_json: the name of the check (of a legacy check: its
\* marshalled code, base64 encoded, and its __name__), and "N/A" as the
\* fingerprint
CheckInvariants_to_json(e) ==
  LET fields == With(e.dict, "class", PStr(<<e.class>>))
      named == IF e.dict["legacy_invariant_check"].v
                 THEN With(With(fields, "invariant_check",
                                PStr(<<"marshal", e.dict["invariant_check"].v>>)),
                           "invariant_name", PStr(<<e.dict["invariant_check"].v>>))
               ELSE With(With(fields, "invariant_name", e.dict["invariant_check_name"]),
                         "invariant_check", PNone)
      kept == With(named, "fingerprint", PStr(<<"N/A">>))
  IN IF \E k \in DOMAIN kept : json(kept[k]) = Raised THEN Raised
     ELSE [k \in DOMAIN kept |-> json(kept[k])]

\* PingEvent.to_json
PingEvent_to_json(e) ==
  LET fields == With(With(With(With(e.dict, "class", PStr(<<e.class>>)),
                               "src_host_id", e.dict["src_host_id"]),
                          "dst_host_id", e.dict["dst_host_id"]),
                     "fingerprint", fingerprint(e))
  IN IF \E k \in DOMAIN fields : json(fields[k]) = Raised THEN Raised
     ELSE [k \in DOMAIN fields |-> json(fields[k])]

\* to_json of each class
to_json(e) ==
  CASE e.class = "DataplaneDrop" -> DataplaneDrop_to_json(e)
    [] e.class = "CheckInvariants" -> CheckInvariants_to_json(e)
    [] e.class = "PingEvent" -> PingEvent_to_json(e)
    [] OTHER -> Event_to_json(e)

\* assert_fields_exist(json_hash, *args): the first field that is missing,
\* or None
RECURSIVE assert_fields_exist(_, _)
assert_fields_exist(json_hash, fields) ==
  IF fields = <<>> THEN None
  ELSE IF Head(fields) \notin DOMAIN json_hash THEN <<Head(fields)>>
  ELSE assert_fields_exist(json_hash, Tail(fields))

\* extract_label_time: the keyword arguments label, event_time and
\* logical_round
extract_label_time(json_hash) ==
  ("label" :> json_hash["label"]) @@
  ("event_time" :> SyncTime(json_hash["event_time"].v[1], json_hash["event_time"].v[2])) @@
  ("logical_round" :> json_hash["logical_round"])

\* extract_base_fields: with timeout_disallowed, False when absent
extract_base_fields(json_hash) ==
  With(extract_label_time(json_hash), "timeout_disallowed",
       IF "timeout_disallowed" \in DOMAIN json_hash
         THEN json_hash["timeout_disallowed"] ELSE PBool(FALSE))

\* the fields each from_json hands to assert_fields_exist with the hash
\* (ControllerFailure.from_json hands it the field name alone, so it checks
\* nothing)
AssertedFields(cls) ==
  CASE cls = "SwitchFailure" -> <<"dpid">>
    [] cls = "LinkFailure" -> <<"start_dpid", "start_port_no", "end_dpid", "end_port_no">>
    [] cls = "WaitTime" -> <<"wait_time">>
    [] cls = "ControlChannelBlock" -> <<"dpid", "controller_id">>
    [] cls = "DataplaneDrop" -> <<"fingerprint">>
    [] cls \in ControlMessageClasses -> <<"dpid", "controller_id", "fingerprint">>
    [] cls = "ControllerStateChange" -> <<"controller_id", "fingerprint", "name", "value">>
    [] cls = "DeterministicValue" -> <<"controller_id", "name", "value">>
    [] cls = "InvariantViolation" -> <<"violations">>
    [] OTHER -> <<>>

\* the fields each from_json reads with json_hash[...]
ReadFields(cls) ==
  CASE cls = "ControllerFailure" -> <<"controller_id">>
    [] cls = "PingEvent" -> <<"src_host_id", "dst_host_id">>
    [] OTHER -> AssertedFields(cls)

\* the keyword arguments each from_json hands to the constructor
from_json_args(cls, j) ==
  LET b == IF cls \in InternalClasses THEN extract_base_fields(j)
           ELSE extract_label_time(j)
  IN CASE cls = "SwitchFailure" -> With(b, "dpid", int(j["dpid"]))
       [] cls = "LinkFailure" ->
            With(With(With(With(b, "start_dpid", int(j["start_dpid"])),
                           "start_port_no", int(j["start_port_no"])),
                      "end_dpid", int(j["end_dpid"])),
                 "end_port_no", int(j["end_port_no"]))
       [] cls = "ControllerFailure" -> With(b, "controller_id", j["controller_id"])
       [] cls = "WaitTime" -> With(b, "wait_time", j["wait_time"])
       [] cls = "ControlChannelBlock" ->
            With(With(b, "dpid", j["dpid"]), "controller_id", j["controller_id"])
       [] cls = "NOPInput" -> b
       [] cls = "CheckInvariants" ->
            With(b, "invariant_check_name",
                 IF "invariant_name" \in DOMAIN j THEN j["invariant_name"]
                 ELSE IF "invariant_check" \in DOMAIN j
                   THEN \* types.FunctionType(marshal.loads(...), globals())
                        PFunction(j["invariant_check"].v[2])
                 ELSE PStr(<<"InvariantChecker.check_connectivity">>))
       [] cls = "PingEvent" ->
            With(With(With(b, "prunable",
                           IF "prunable" \in DOMAIN j THEN j["prunable"] ELSE PBool(TRUE)),
                      "src_host_id", j["src_host_id"]),
                 "dst_host_id", j["dst_host_id"])
       [] cls = "InvariantViolation" ->
            With(With(b, "violations", j["violations"]),
                 "persistent",
                 IF "persistent" \in DOMAIN j THEN j["persistent"] ELSE PBool(TRUE))
       [] cls = "DataplaneDrop" ->
            With(With(With(With(b, "fingerprint", j["fingerprint"]),
                           "host_id", PNone), "dpid", PNone), "passive", PBool(TRUE))
       [] cls \in ControlMessageClasses ->
            With(With(With(With(b, "dpid", j["dpid"]),
                           "controller_id", j["controller_id"]),
                      "fingerprint", j["fingerprint"]),
                 "b64_packet", IF "b64_packet" \in DOMAIN j
                                 THEN j["b64_packet"] ELSE PStr(<<>>))
       [] cls = "ControllerStateChange" ->
            With(With(With(With(b, "controller_id", j["controller_id"]),
                           "fingerprint", j["fingerprint"]),
                      "name", j["name"]),
                 "value", j["value"])
       [] cls = "DeterministicValue" ->
            With(With(With(b, "controller_id", j["controller_id"]),
                      "name", j["name"]),
                 "value", j["value"])

\* from_json of the class the object names: the exception it raises
\* ("ValueError" of assert_fields_exist with the field, "KeyError" of a
\* json_hash[...] read) or the constructor call it makes
from_json(j) ==
  LET cls == j["class"].v[1]
      base == assert_fields_exist(j, <<"label", "event_time", "logical_round">>)
      own == assert_fields_exist(j, AssertedFields(cls))
      read == assert_fields_exist(j, ReadFields(cls))
  IN IF base # None THEN [exc |-> "ValueError", field |-> base[1]]
     ELSE IF own # None THEN [exc |-> "ValueError", field |-> own[1]]
     ELSE IF read # None THEN [exc |-> "KeyError", field |-> read[1]]
     ELSE IF /\ cls = "CheckInvariants"
             /\ "invariant_name" \notin DOMAIN j
             /\ "invariant_check" \in DOMAIN j
             /\ j["invariant_check"].t # "str"
       THEN \* None.decode('base64')
            [exc |-> "AttributeError", field |-> "invariant_check"]
     ELSE [exc |-> "none", class |-> cls, args |-> from_json_args(cls, j)]

(***************************************************************************)
(* The topology graph as a state machine                                   *)
(***************************************************************************)
G == [nodes |-> nodes, edges |-> edges]

\* every node id an entity of the catalogue can resolve to
AllIds ==
  UNION {{_host_node_id(h)} \cup {_interfaces_iterator(h)[i].id : i \in 1..Len(h.interfaces)}
           : h \in Hosts}
  \cup
  UNION {{_switch_node_id(s)} \cup {_ports_iterator(s)[k].id : k \in 1..Len(s.ports)}
           : s \in Switches}

\* what get_link is called with: the ends of a network link in both
\* directions, of a switch-port edge, of a host-interface edge, of an
\* access link, and a pair that is never connected
GetLinkArgs ==
  LET p1 == _port_node_id(S1, S1.ports[1])
      p2 == _port_node_id(S2, S2.ports[1])
      i1 == _interface_node_id(H1.interfaces[1])
  IN { <<p1, p2>>, <<p2, p1>>, <<_switch_node_id(S1), p1>>,
       <<_host_node_id(H1), i1>>, <<i1, p1>>,
       <<_switch_node_id(S1), _switch_node_id(S2)>> }

InitGraph ==
  /\ nodes = EmptyFn
  /\ edges = EmptyFn
  /\ pre = EmptyGraph
  /\ last = [op |-> "init", arg |-> NoObj, bidir |-> FALSE, ok |-> TRUE,
             chained |-> FALSE, ret |-> NoObj]

\* no event yet
NoEvent == [class |-> "none", dict |-> EmptyFn]

\* nothing written yet
NoWire == EmptyFn

\* the call an event was constructed by, when there is none
NoCall == [class |-> "none", args |-> EmptyFn]

\* the class attributes of Event as the module is loaded: itertools.count(1)
\* and an empty set
InitEvents ==
  /\ label_gen = 1
  /\ all_label_ids = {}
  /\ labels = <<>>
  /\ cur = NoEvent
  /\ wire = NoWire
  /\ orig = NoEvent
  /\ elast = [op |-> "init", exc |-> "none", field |-> "", call |-> NoCall,
              omitted |-> "", gen |-> 1]

\* a message in a buffer: PendingSend / PendingReceive(dpid, controller_id,
\* fingerprint)
Pending(kind, dpid, controller_id, fp) ==
  [kind |-> kind, dpid |-> dpid, controller_id |-> controller_id, fingerprint |-> fp]

\* an OpenFlowBuffer with nothing pending
EmptyBuffer == [sends |-> <<>>, receives |-> <<>>]

\* the dpids of the switches of the simulation
Dpids == {PInt(1)}

\* no step of the replay yet
NoStep ==
  [op |-> "init", idx |-> 0, waiting |-> FALSE, scheduled |-> FALSE, ret |-> FALSE,
   changed |-> FALSE]

\* the simulation before the replay starts
InitReplay ==
  /\ sim = [openflow_buffer |-> EmptyBuffer, switch_buffer |-> [d \in Dpids |-> EmptyBuffer],
            patch_panel |-> <<>>]
  /\ released = <<>>
  /\ trace = <<>>
  /\ pc = 1
  /\ tries = 0
  /\ periods = 0
  /\ nobserved = 0
  /\ rlast = NoStep

(***************************************************************************)
(* The connectivity tracker (sts/topology/connectivity_tracker.py): two    *)
(* ledgers of records (src_host, src_interface, dst_host, dst_interface,   *)
(* policy) and the registry of policies.                                   *)
(***************************************************************************)
\* ConnectivityTracker(default_connected)
ConnectivityTracker(default_connected) ==
  [default_connected |-> default_connected, connected_pairs |-> {},
   disconnected_pairs |-> {}, policies |-> {}]

add_connected_hosts(t, src_host, src_interface, dst_host, dst_interface, policy) ==
  [t EXCEPT !.connected_pairs =
              @ \cup {<<src_host, src_interface, dst_host, dst_interface, policy>>},
            !.policies = @ \cup {policy}]

add_disconnected_hosts(t, src_host, src_interface, dst_host, dst_interface, policy) ==
  [t EXCEPT !.disconnected_pairs =
              @ \cup {<<src_host, src_interface, dst_host, dst_interface, policy>>},
            !.policies = @ \cup {policy}]

\* remove_policy that forgets the policy but keeps its records
remove_policy_keeps_records(t, policy) ==
  [t EXCEPT !.policies = @ \ {policy}]

\* remove_policy: every record of the policy, in both ledgers, and the
\* policy itself
remove_policy(t, policy) ==
  [t EXCEPT !.connected_pairs = {r \in @ : r[5] # policy},
            !.disconnected_pairs = {r \in @ : r[5] # policy},
            !.policies = @ \ {policy}]

\* the records of a ledger for the pair (src_host, dst_host)
PairRecords(ledger, src_host, dst_host) ==
  {r \in ledger : r[1] = src_host /\ r[3] = dst_host}

\* is_connected that consults the disconnected records first
is_connected_disconnected_first(t, src_host, dst_host) ==
  IF PairRecords(t.disconnected_pairs, src_host, dst_host) # {} THEN FALSE
  ELSE IF PairRecords(t.connected_pairs, src_host, dst_host) # {} THEN TRUE
  ELSE t.default_connected

\* is_connected: connected records, then disconnected records, then the
\* default
is_connected(t, src_host, dst_host) ==
  IF PairRecords(t.connected_pairs, src_host, dst_host) # {} THEN TRUE
  ELSE IF PairRecords(t.disconnected_pairs, src_host, dst_host) # {} THEN FALSE
  ELSE t.default_connected

(***************************************************************************)
(* AddIntent / RemoveIntent (sts/replay_event.py)                          *)
(***************************************************************************)
\* EthAddr(str): the address that the string spells
EthAddr(mac) == [t |-> "EthAddr", v |-> mac]

\* a host interface: its name and hardware address
Iface(name, mac) == [name |-> name, hw_addr |-> EthAddr(mac)]

\* simulation.topology.hosts_manager.hosts: two hosts, the first with two
\* interfaces
TrackedHosts ==
  << [name |-> "h1", interfaces |-> <<Iface("h1-eth0", "00:01"), Iface("h1-eth1", "00:03")>>],
     [name |-> "h2", interfaces |-> <<Iface("h2-eth0", "00:02")>>] >>

\* what the loop of AddIntent.proceed has found so far
NothingFound ==
  [src_host |-> PNone, src_iface |-> PNone, dst_host |-> PNone, dst_iface |-> PNone]

\* the body of the inner loop of AddIntent.proceed for one interface
Examine(found, host, iface, src_mac, dst_mac) ==
  LET f1 == IF iface.hw_addr = EthAddr(src_mac)
              THEN [found EXCEPT !.src_host = host, !.src_iface = iface]
              ELSE found
  IN IF iface.hw_addr = EthAddr(dst_mac)
       THEN [f1 EXCEPT !.dst_host = host, !.dst_iface = iface]
       ELSE f1

\* the inner loop from interface k on: it breaks once both hosts are known
RECURSIVE ScanInterfaces(_, _, _, _, _)
ScanInterfaces(found, host, k, src_mac, dst_mac) ==
  IF k > Len(host.interfaces) THEN found
  ELSE LET f == Examine(found, host, host.interfaces[k], src_mac, dst_mac)
       IN IF f.src_host # PNone /\ f.dst_host # PNone THEN f
          ELSE ScanInterfaces(f, host, k + 1, src_mac, dst_mac)

\* the outer loop from host i on
RECURSIVE ScanHosts(_, _, _, _, _)
ScanHosts(found, hosts, i, src_mac, dst_mac) ==
  IF i > Len(hosts) THEN found
  ELSE ScanHosts(ScanInterfaces(found, hosts[i], 1, src_mac, dst_mac),
                 hosts, i + 1, src_mac, dst_mac)

\* the outcome of a proceed on the tracker: the tracker it leaves and what
\* it returned
TRet(t, ret) == [t |-> t, ret |-> ret]

\* AddIntent.proceed that records the hosts whatever the controller said
AddIntent_proceed_unconditional(t, e, ret) ==
  LET f == ScanHosts(NothingFound, TrackedHosts, 1, e.src_mac, e.dst_mac)
  IN TRet(add_connected_hosts(t, f.src_host, f.src_iface, f.dst_host, f.dst_iface,
                              e.intent_id), ret)

\* AddIntent.proceed; ret is what controller.add_intent(intent) returned
AddIntent_proceed(t, e, ret) ==
  IF ~ret THEN TRet(t, ret)
  ELSE LET f == ScanHosts(NothingFound, TrackedHosts, 1, e.src_mac, e.dst_mac)
       IN TRet(add_connected_hosts(t, f.src_host, f.src_iface, f.dst_host, f.dst_iface,
                                   e.intent_id), ret)

\* RemoveIntent.proceed that leaves the tracker alone
RemoveIntent_proceed_keeps_policy(t, e, ret) == TRet(t, ret)

\* RemoveIntent.proceed; ret is what controller.remove_intent(...) returned
RemoveIntent_proceed(t, e, ret) ==
  IF ret THEN TRet(remove_policy(t, e.intent_id), ret) ELSE TRet(t, ret)

\* no operation on the tracker yet
NoTrackerCall ==
  [op |-> "init", arg |-> <<>>, ret |-> FALSE, pre |-> ConnectivityTracker(FALSE)]

\* a tracker as the topology creates it
InitTracker ==
  /\ tracker = ConnectivityTracker(FALSE)
  /\ tlast = NoTrackerCall

(***************************************************************************)
(* The services of the simulation that proceed() calls: the io_worker of   *)
(* each switch<->controller connection, the controller sync callback, the  *)
(* violation tracker and the fail_to_interactive attributes.               *)
(***************************************************************************)
\* the controllers and the switches that have connections
ControllerIds == {PStr(<<"c", "1">>), PStr(<<"c", "2">>)}
ChannelDpids == {PInt(1), PInt(2)}

\* switch.get_connection(controller_id) of simulation.topology.get_switch(dpid)
get_connection(dpid, controller_id) == <<dpid, controller_id>>

\* an attribute the simulation object does not have (hasattr is False)
Absent == [t |-> "absent", v |-> FALSE]

\* ViolationTracker(): nothing tracked; `now` are the violations of the
\* last check and `before` those of the check before it
ViolationTracker == [now |-> <<>>, before |-> <<>>, round |-> PNone]

\* no proceed() yet
NoProceed == [op |-> "init", arg |-> <<>>, ret |-> "None", did |-> <<>>, pre |-> <<>>]

\* a simulation as it is set up: no connection blocked, no request
\* pending, no fail_to_interactive attribute
InitSimulation ==
  /\ connections = [c \in ChannelDpids \X ControllerIds |-> [currently_blocked |-> FALSE]]
  /\ sync = [pending |-> [c \in ControllerIds |-> 0],
             requested |-> [c \in ControllerIds |-> 0],
             replies |-> [c \in ControllerIds |-> <<>>]]
  /\ violation_tracker = ViolationTracker
  /\ flags = [fail_to_interactive |-> Absent,
              fail_to_interactive_on_persistent_violations |-> Absent]
  /\ slast = NoProceed

Init == InitGraph /\ InitEvents /\ InitReplay /\ InitTracker /\ InitSimulation

\* the add_* call that a remove_* call undoes
AddOf(op) ==
  CASE op = "remove_host" -> "add_host"
    [] op = "remove_switch" -> "add_switch"
    [] op = "remove_link" -> "add_link"
    [] OTHER -> "none"

\* one call of a TopologyGraph method: the graph it leaves, and the record
\* of the call.  `chained` tells that the call is a remove_* that directly
\* follows the successful add_* of the same object (for a link: added with
\* bidir=True).
Call(op, arg, bidir, r) ==
  /\ nodes' = r.g.nodes
  /\ edges' = r.g.edges
  /\ pre' = G
  /\ last' = [op |-> op, arg |-> arg, bidir |-> bidir, ok |-> r.ok,
              chained |-> /\ last.op = AddOf(op)
                          /\ last.ok
                          /\ last.arg = arg
                          /\ (op = "remove_link" => last.bidir),
              ret |-> NoObj]
  /\ UNCHANGED <<evars, rvars, tvars, svars>>

\* one call of a TopologyGraph method that only reads the graph: what it
\* returned ("Error" when it raised)
Query(op, arg, ret) ==
  /\ UNCHANGED <<nodes, edges>>
  /\ pre' = G
  /\ last' = [op |-> op, arg |-> arg, bidir |-> FALSE, ok |-> ret # "Error",
              chained |-> FALSE, ret |-> ret]
  /\ UNCHANGED <<evars, rvars, tvars, svars>>

AddHost == \E h \in Hosts : Call("add_host", h, FALSE, add_host(G, h))
RemoveHost == \E h \in Hosts : Call("remove_host", h, FALSE, remove_host(G, h))
AddSwitch == \E s \in Switches : Call("add_switch", s, FALSE, add_switch(G, s))
RemoveSwitch == \E s \in SwitchArgs : Call("remove_switch", s, FALSE, remove_switch(G, s))
AddLink ==
  \E l \in Links, bidir \in BOOLEAN : Call("add_link", l, bidir, add_link(G, l, bidir))
RemoveLink == \E l \in Links : Call("remove_link", l, FALSE, remove_link(G, l))
HasLink == \E l \in LinkArgs : Query("has_link", l, has_link(G, l))
GetLink == \E p \in GetLinkArgs : Query("get_link", p, get_link(G, p[1], p[2]))
RemovePort == \E n \in AllIds : Call("remove_port", n, FALSE, remove_port(G, n))
RemoveInterface ==
  \E n \in AllIds : Call("remove_interface", n, FALSE, remove_interface(G, n))

NextGraph ==
  \/ AddHost
  \/ RemoveHost
  \/ AddSwitch
  \/ RemoveSwitch
  \/ AddLink
  \/ RemoveLink
  \/ HasLink
  \/ GetLink
  \/ RemovePort
  \/ RemoveInterface

Spec == Init /\ [][NextGraph]_vars

(***************************************************************************)
(* Events as a state machine: events are constructed, written with         *)
(* to_json and read back with from_json, in any order.                     *)
(***************************************************************************)
\* the number of events constructed in one run
MaxEvents == 3

\* the event_time the constructed events carry
T0 == SyncTime(PInt(7), PInt(5))

\* controller ids: the string "c1" or "c2"
Cid(n) == PStr(<<"c">> \o Str(n))

\* the arguments every constructor call passes
CommonArgs == ("logical_round" :> PInt(0)) @@ ("event_time" :> T0)

\* and every constructor call of an internal event
InternalArgs == With(CommonArgs, "timeout_disallowed", PBool(FALSE))

\* a constructor call
NewCall(cls, a) ==
  [class |-> cls, args |-> a @@ (IF cls \in InternalClasses THEN InternalArgs ELSE CommonArgs)]

LinkFailureArgs(sd, sp, ed, ep) ==
  ("start_dpid" :> PInt(sd)) @@ ("start_port_no" :> PInt(sp)) @@
  ("end_dpid" :> PInt(ed)) @@ ("end_port_no" :> PInt(ep))

ControlMessageArgs(dpid, cid, of, b64) ==
  ("dpid" :> PInt(dpid)) @@ ("controller_id" :> cid) @@
  ("fingerprint" :> PDict(of)) @@ ("b64_packet" :> PStr(b64))

StateChangeArgs(cid, fp, name, value) ==
  ("controller_id" :> cid) @@ ("fingerprint" :> PStr(<<fp>>)) @@
  ("name" :> PStr(<<name>>)) @@ ("value" :> value)

DeterministicValueArgs(cid, name, value) ==
  ("controller_id" :> cid) @@ ("name" :> PStr(<<name>>)) @@ ("value" :> value)

DataplaneDropArgs(dp, dpid, port_no, host_id) ==
  ("fingerprint" :> PTuple(<<PDict(dp), PInt(dpid), PInt(port_no)>>)) @@
  ("host_id" :> host_id) @@ ("dpid" :> PInt(dpid)) @@ ("passive" :> PBool(TRUE))

\* the constructor calls of the model
Calls ==
  {NewCall("SwitchFailure", "dpid" :> PInt(n)) : n \in 1..2}
  \cup {NewCall("LinkFailure", LinkFailureArgs(1, 1, 2, 1)),
        NewCall("LinkFailure", LinkFailureArgs(1, 1, 2, 2)),
        NewCall("LinkFailure", LinkFailureArgs(2, 1, 1, 1))}
  \cup {NewCall("ControllerFailure", "controller_id" :> Cid(n)) : n \in 1..2}
  \cup {NewCall("WaitTime", "wait_time" :> PInt(n)) : n \in 1..2}
  \cup {NewCall("ControlChannelBlock", ("dpid" :> PInt(1)) @@ ("controller_id" :> Cid(1))),
        NewCall("ControlChannelBlock", ("dpid" :> PInt(2)) @@ ("controller_id" :> Cid(1))),
        NewCall("ControlChannelBlock", ("dpid" :> PInt(1)) @@ ("controller_id" :> Cid(2)))}
  \cup {NewCall("NOPInput", EmptyFn)}
  \cup {NewCall("CheckInvariants",
                "invariant_check_name" :> PStr(<<"InvariantChecker.check_correspondence">>)),
        NewCall("CheckInvariants", "invariant_check_name" :> PFunction("check_foo"))}
  \cup {NewCall("PingEvent", ("src_host_id" :> PInt(1)) @@ ("dst_host_id" :> PInt(2))),
        NewCall("PingEvent", ("src_host_id" :> PInt(2)) @@ ("dst_host_id" :> PInt(1)))}
  \cup {NewCall("InvariantViolation", "violations" :> PList(<<PStr(<<"loop">>)>>))}
  \cup {NewCall("DataplaneDrop", DataplaneDropArgs("icmp", 1, 1, PNone)),
        NewCall("DataplaneDrop", DataplaneDropArgs("arp", 1, 1, PNone)),
        NewCall("DataplaneDrop", DataplaneDropArgs("icmp", 1, 1, PInt(1)))}
  \cup {NewCall("ControlMessageSend", ControlMessageArgs(1, Cid(1), "flow_mod", <<>>)),
        NewCall("ControlMessageSend", ControlMessageArgs(2, Cid(1), "flow_mod", <<>>)),
        NewCall("ControlMessageSend", ControlMessageArgs(1, Cid(1), "packet_out", <<>>)),
        NewCall("ControlMessageSend", ControlMessageArgs(1, Cid(1), "flow_mod", <<"AQ==">>)),
        NewCall("ControlMessageReceive", ControlMessageArgs(1, Cid(1), "flow_mod", <<>>)),
        NewCall("ControlMessageReceive",
                ControlMessageArgs(1, PTuple(<<PStr(<<"c">>), PInt(1)>>), "flow_mod", <<>>)),
        NewCall("ProcessFlowMod", ControlMessageArgs(1, Cid(1), "flow_mod", <<>>))}
  \cup {NewCall("ControllerStateChange", StateChangeArgs(Cid(1), "fp1", "n1", PInt(1))),
        NewCall("ControllerStateChange", StateChangeArgs(Cid(2), "fp1", "n1", PInt(1))),
        NewCall("ControllerStateChange", StateChangeArgs(Cid(1), "fp2", "n1", PInt(1))),
        NewCall("ControllerStateChange", StateChangeArgs(Cid(1), "fp1", "n1", PInt(2)))}
  \cup {NewCall("DeterministicValue",
                DeterministicValueArgs(Cid(1), "gettimeofday", PList(<<PInt(42), PInt(17)>>))),
        NewCall("DeterministicValue",
                DeterministicValueArgs(Cid(1), "gettimeofday", PList(<<PInt(42), PInt(18)>>))),
        NewCall("DeterministicValue",
                DeterministicValueArgs(Cid(2), "gettimeofday", PList(<<PInt(42), PInt(17)>>))),
        NewCall("DeterministicValue", DeterministicValueArgs(Cid(1), "rand", PInt(4)))}

\* the constructor calls that pass a label
LabelledCalls ==
  {NewCall("SwitchFailure", "dpid" :> PInt(1)),
   NewCall("ControlMessageSend", ControlMessageArgs(1, Cid(1), "flow_mod", <<>>))}

\* the labels a caller passes: none, or one of these
ExplicitLabels == {<<"e", "1">>}

\* the record of an operation on events: the exception it raised ("none"
\* when it returned), the missing field the exception names, the constructor
\* call made, the field left out of the JSON object that was read, and
\* what the next() of Event._label_gen would have returned before it
Did(op, exc, field, call, omitted) ==
  [op |-> op, exc |-> exc, field |-> field, call |-> call, omitted |-> omitted,
   gen |-> label_gen]

\* the exception of a constructor that raises: CheckInvariants and
\* InvariantViolation raise ValueError, tuple() of a non-iterable TypeError
InitError(cls) ==
  IF cls \in {"CheckInvariants", "InvariantViolation"} THEN "ValueError" ELSE "TypeError"

\* cls(label=label, **args): Event.__init__ registers the label, then the
\* class sets its attributes
Construct(op, call, label, omitted) ==
  LET l == Event_label(Prefix(call.class), label, label_gen, all_label_ids)
      d == init(call.class, call.args, l.label)
  IN IF d = Raised
       THEN \* the label is registered before the class's own code raises
            /\ label_gen' = l.label_gen
            /\ all_label_ids' = l.all_label_ids
            /\ elast' = Did(op, InitError(call.class), "", call, omitted)
            /\ UNCHANGED <<labels, cur>>
       ELSE /\ label_gen' = l.label_gen
            /\ all_label_ids' = l.all_label_ids
            /\ labels' = Append(labels, l.label)
            /\ cur' = [class |-> call.class, dict |-> d]
            /\ elast' = Did(op, "none", "", call, omitted)

\* an event is constructed with a generated label
NewEvent ==
  /\ Len(labels) < MaxEvents
  /\ \E call \in Calls : Construct("new", call, None, "")
  /\ UNCHANGED <<wire, orig>>
  /\ UNCHANGED <<gvars, rvars, tvars, svars>>

\* an event is constructed with the label its caller passes
NewLabelledEvent ==
  /\ Len(labels) < MaxEvents
  /\ \E call \in LabelledCalls, label \in ExplicitLabels : Construct("new", call, label, "")
  /\ UNCHANGED <<wire, orig>>
  /\ UNCHANGED <<gvars, rvars, tvars, svars>>

\* cur.to_json()
Encode ==
  /\ cur # NoEvent
  /\ IF to_json(cur) = Raised
       THEN /\ elast' = Did("to_json", "TypeError", "", elast.call, "")
            /\ UNCHANGED <<wire, orig>>
       ELSE /\ wire' = to_json(cur)
            /\ orig' = cur
            /\ elast' = Did("to_json", "none", "", elast.call, "")
  /\ UNCHANGED <<label_gen, all_label_ids, labels, cur>>
  /\ UNCHANGED <<gvars, rvars, tvars, svars>>

\* from_json(j) of the class that j names, then the constructor
Read(op, j, omitted) ==
  LET r == from_json(j)
  IN IF r.exc # "none"
       THEN /\ elast' = Did(op, r.exc, r.field, NoCall, omitted)
            /\ UNCHANGED <<label_gen, all_label_ids, labels, cur>>
       ELSE Construct(op, [class |-> r.class, args |-> Without(r.args, "label")],
                      r.args["label"].v, omitted)

\* from_json(wire)
Decode ==
  /\ wire # NoWire
  /\ Len(labels) < MaxEvents
  /\ Read("from_json", wire, "")
  /\ UNCHANGED <<wire, orig>>
  /\ UNCHANGED <<gvars, rvars, tvars, svars>>

\* from_json of a trace line that lacks one of the fields to_json writes
\* (a line of an older trace)
DecodeOmitting ==
  /\ wire # NoWire
  /\ Len(labels) < MaxEvents
  /\ \E k \in DOMAIN wire \ {"class"} : Read("from_json_omitting", Without(wire, k), k)
  /\ UNCHANGED <<wire, orig>>
  /\ UNCHANGED <<gvars, rvars, tvars, svars>>

\* from_json of a trace line that carries a field no class knows
DecodeExtra ==
  /\ wire # NoWire
  /\ Len(labels) < MaxEvents
  /\ Read("from_json_extra", With(wire, "comment", PStr(<<"x">>)), "")
  /\ UNCHANGED <<wire, orig>>
  /\ UNCHANGED <<gvars, rvars, tvars, svars>>

NextEvents ==
  \/ NewEvent
  \/ NewLabelledEvent
  \/ Encode
  \/ Decode
  \/ DecodeOmitting
  \/ DecodeExtra

SpecEvents == Init /\ [][NextEvents]_vars

(***************************************************************************)
(* The OpenFlow buffer (sts/openflow_buffer.py, named by replay_event.py    *)
(* but not part of the sources at hand; modelled after section 4.2 of the  *)
(* specification): per connection (dpid, controller id) a FIFO queue of    *)
(* pending sends and one of pending receives.                              *)
(***************************************************************************)
\* the relevant queue of a pending message: the messages of its kind and of
\* its connection, in order of arrival
RelevantQueue(b, p) ==
  LET SameConnection(m) == m.dpid = p.dpid /\ m.controller_id = p.controller_id
  IN SelectSeq(IF p.kind = "send" THEN b.sends ELSE b.receives, SameConnection)

\* message_send_waiting / message_receipt_waiting: a message with that exact
\* fingerprint is at the head of the relevant queue
message_waiting(b, p) ==
  RelevantQueue(b, p) # <<>> /\ Head(RelevantQueue(b, p)) = p

\* a queue without the first message equal to p
RECURSIVE RemoveFirst(_, _)
RemoveFirst(q, p) ==
  IF q = <<>> THEN <<>>
  ELSE IF Head(q) = p THEN Tail(q)
  ELSE <<Head(q)>> \o RemoveFirst(Tail(q), p)

\* schedule(pending): the identified message is released
schedule(b, p) ==
  IF p.kind = "send" THEN [b EXCEPT !.sends = RemoveFirst(b.sends, p)]
  ELSE [b EXCEPT !.receives = RemoveFirst(b.receives, p)]

\* observe_send / observe_receive: the message is enqueued
observe(b, p) ==
  IF p.kind = "send" THEN [b EXCEPT !.sends = Append(b.sends, p)]
  ELSE [b EXCEPT !.receives = Append(b.receives, p)]

\* OpenFlowBuffer.in_whitelist: the always-pass messages
in_whitelist(fp) == to_dict(fp) \in {PDict("hello"), PDict("echo_reply")}

(***************************************************************************)
(* proceed and whitelisted of the events (sts/replay_event.py)             *)
(***************************************************************************)
\* ControlMessageSend.pending_send
pending_send(e) ==
  Pending("send", e.dict["dpid"], e.dict["controller_id"], fingerprint(e).v[2])

\* ControlMessageReceive.pending_receive, ProcessFlowMod.pending_receive
pending_receive(e) ==
  Pending("receive", e.dict["dpid"], e.dict["controller_id"], fingerprint(e).v[2])

\* what a call of proceed leaves: the simulation, the value returned, what
\* the waiting predicate answered and whether schedule was called
Proceeded(s, ret, waiting, scheduled, pending) ==
  [sim |-> s, ret |-> ret, waiting |-> waiting, scheduled |-> scheduled,
   pending |-> pending]

\* a proceed that schedules whether or not the message is waiting
proceed_unguarded(s, e) ==
  IF e.class \in ControlMessageClasses
    THEN LET p == IF e.class = "ControlMessageSend" THEN pending_send(e)
                  ELSE pending_receive(e)
         IN Proceeded([s EXCEPT !.openflow_buffer = schedule(s.openflow_buffer, p)],
                      TRUE, message_waiting(s.openflow_buffer, p), TRUE, p)
    ELSE Proceeded(s, TRUE, FALSE, FALSE, NoObj)

\* proceed of each class
proceed(s, e) ==
  CASE e.class = "ControlMessageSend" ->
         LET p == pending_send(e)
             waiting == message_waiting(s.openflow_buffer, p)
         IN IF waiting
              THEN Proceeded([s EXCEPT !.openflow_buffer = schedule(s.openflow_buffer, p)],
                             TRUE, waiting, TRUE, p)
              ELSE Proceeded(s, FALSE, waiting, FALSE, p)
    [] e.class = "ControlMessageReceive" ->
         LET p == pending_receive(e)
             waiting == message_waiting(s.openflow_buffer, p)
         IN IF waiting
              THEN Proceeded([s EXCEPT !.openflow_buffer = schedule(s.openflow_buffer, p)],
                             TRUE, waiting, TRUE, p)
              ELSE Proceeded(s, FALSE, waiting, FALSE, p)
    [] e.class = "ProcessFlowMod" ->
         LET p == pending_receive(e)
             of_buff == s.switch_buffer[e.dict["dpid"]]
             waiting == message_waiting(of_buff, p)
         IN IF waiting
              THEN Proceeded([s EXCEPT !.switch_buffer[e.dict["dpid"]] = schedule(of_buff, p)],
                             TRUE, waiting, TRUE, p)
              ELSE Proceeded(s, FALSE, waiting, FALSE, p)
    [] OTHER -> \* NOPInput.proceed, WaitTime.proceed: return True
         Proceeded(s, TRUE, FALSE, FALSE, NoObj)

\* a whitelisted that looks at the fingerprint of sends only
whitelisted_sends_only(e) ==
  CASE e.class = "ControlMessageSend" ->
         \/ e.dict["pass_through_sends"].v
         \/ (e.dict["ignore_whitelisted_packets"].v /\ in_whitelist(pending_send(e).fingerprint))
    [] OTHER -> FALSE

\* whitelisted of each internal class
whitelisted(e) ==
  CASE e.class = "ControlMessageReceive" ->
         e.dict["ignore_whitelisted_packets"].v /\ in_whitelist(pending_receive(e).fingerprint)
    [] e.class = "ControlMessageSend" ->
         \/ e.dict["pass_through_sends"].v
         \/ (e.dict["ignore_whitelisted_packets"].v /\ in_whitelist(pending_send(e).fingerprint))
    [] OTHER -> FALSE

(***************************************************************************)
(* The replayer (sts/control_flow/replayer.py, not part of the sources at  *)
(* hand; modelled after section 4.3 of the specification)                  *)
(***************************************************************************)
\* default_timeout, counted in calls of proceed that return False
MaxTries == 2

\* the messages the simulation produces in one run
MaxMessages == 3

\* the event that a constructor call makes, with its label
Ev(call, label) == [class |-> call.class, dict |-> init(call.class, call.args, label)]

\* the event with timeout_disallowed set (InternalEvent.disallow_timeouts)
disallow_timeouts(e) == [e EXCEPT !.dict = With(e.dict, "timeout_disallowed", PBool(TRUE))]

\* the event with pass_through_sends set, as a replayer constructed with
\* pass_through_sends does
PassThrough(e) == [e EXCEPT !.dict = With(e.dict, "pass_through_sends", PBool(TRUE))]

SendA == Ev(NewCall("ControlMessageSend", ControlMessageArgs(1, Cid(1), "flow_mod", <<>>)), <<"i", "1">>)
SendB == Ev(NewCall("ControlMessageSend", ControlMessageArgs(1, Cid(1), "packet_out", <<>>)), <<"i", "2">>)
ReceiveA == Ev(NewCall("ControlMessageReceive", ControlMessageArgs(1, Cid(1), "flow_mod", <<>>)), <<"i", "1">>)
FlowModA == Ev(NewCall("ProcessFlowMod", ControlMessageArgs(1, Cid(1), "flow_mod", <<>>)), <<"i", "2">>)
Nop == Ev(NewCall("NOPInput", EmptyFn), <<"e", "3">>)
HelloSend == Ev(NewCall("ControlMessageSend", ControlMessageArgs(1, Cid(1), "hello", <<>>)), <<"i", "4">>)
HelloReceive == Ev(NewCall("ControlMessageReceive", ControlMessageArgs(1, Cid(1), "echo_reply", <<>>)), <<"i", "5">>)
HelloFlowMod == Ev(NewCall("ProcessFlowMod", ControlMessageArgs(1, Cid(1), "hello", <<>>)), <<"i", "6">>)

\* the event with ignore_whitelisted_packets set, as a replayer constructed
\* with ignore_whitelisted_packets does
IgnoreWhitelisted(e) ==
  [e EXCEPT !.dict = With(e.dict, "ignore_whitelisted_packets", PBool(TRUE))]

\* the traces of the model
Traces ==
  {<<SendA, SendB>>,
   <<ReceiveA, FlowModA>>,
   <<disallow_timeouts(SendA), SendB>>,
   <<Nop, SendA>>,
   <<PassThrough(SendA), SendB>>,
   <<IgnoreWhitelisted(HelloSend), IgnoreWhitelisted(HelloReceive)>>,
   <<HelloReceive, HelloSend>>,
   <<IgnoreWhitelisted(HelloFlowMod), IgnoreWhitelisted(ReceiveA)>>}

\* the messages the simulation can produce: the buffer that intercepts
\* them (of the simulation, or of switch 1) and the message
Observations ==
  {<<"openflow_buffer", Pending("send", PInt(1), Cid(1), OFFingerprint(PDict("flow_mod")))>>,
   <<"openflow_buffer", Pending("send", PInt(1), Cid(1), OFFingerprint(PDict("packet_out")))>>,
   <<"openflow_buffer", Pending("receive", PInt(1), Cid(1), OFFingerprint(PDict("flow_mod")))>>,
   <<"switch_buffer", Pending("receive", PInt(1), Cid(1), OFFingerprint(PDict("flow_mod")))>>,
   <<"openflow_buffer", Pending("receive", PInt(1), Cid(1), OFFingerprint(PDict("echo_reply")))>>,
   <<"switch_buffer", Pending("receive", PInt(1), Cid(1), OFFingerprint(PDict("hello")))>>}

\* the replayer has reached the end of its trace
Done == trace # <<>> /\ pc > Len(trace)

\* the event has timeout_disallowed set
TimeoutDisallowed(e) ==
  "timeout_disallowed" \in DOMAIN e.dict /\ e.dict["timeout_disallowed"].v

\* the smaller of two numbers
Min(a, b) == IF a < b THEN a ELSE b

\* a record of a step of the replay
Step(op, idx, r, changed) ==
  [op |-> op, idx |-> idx, waiting |-> r.waiting, scheduled |-> r.scheduled,
   ret |-> r.ret, changed |-> changed]

\* a step that calls no proceed
NoCallStep(op, idx) ==
  [op |-> op, idx |-> idx, waiting |-> FALSE, scheduled |-> FALSE, ret |-> FALSE,
   changed |-> FALSE]

\* a replayer is given a trace
LoadTrace ==
  /\ trace = <<>>
  /\ \E t \in Traces : trace' = t
  /\ rlast' = NoCallStep("load", 0)
  /\ UNCHANGED <<sim, released, pc, tries, periods, nobserved>>
  /\ UNCHANGED <<gvars, evars, tvars, svars>>

\* the simulation intercepts a message: observe_send / observe_receive
Observe ==
  /\ nobserved < MaxMessages
  /\ \E o \in Observations :
       sim' = IF o[1] = "openflow_buffer"
                THEN [sim EXCEPT !.openflow_buffer = observe(sim.openflow_buffer, o[2])]
                ELSE [sim EXCEPT !.switch_buffer[o[2].dpid] =
                                   observe(sim.switch_buffer[o[2].dpid], o[2])]
  /\ nobserved' = nobserved + 1
  /\ rlast' = NoCallStep("observe", 0)
  /\ UNCHANGED <<released, trace, pc, tries, periods>>
  /\ UNCHANGED <<gvars, evars, tvars, svars>>

\* the event at the head is an internal event that is whitelisted: advance
Skip ==
  /\ trace # <<>> /\ pc <= Len(trace)
  /\ trace[pc].class \in InternalClasses
  /\ whitelisted(trace[pc])
  /\ pc' = pc + 1
  /\ tries' = 0
  /\ rlast' = NoCallStep("skip", pc)
  /\ UNCHANGED <<sim, released, trace, periods, nobserved>>
  /\ UNCHANGED <<gvars, evars, tvars, svars>>

\* proceed of the event at the head is called: True advances, False is
\* retried until default_timeout, without end when timeout_disallowed
Proceed ==
  /\ trace # <<>> /\ pc <= Len(trace)
  /\ ~(trace[pc].class \in InternalClasses /\ whitelisted(trace[pc]))
  /\ tries < MaxTries \/ TimeoutDisallowed(trace[pc])
  /\ LET r == proceed(sim, trace[pc])
     IN /\ sim' = r.sim
        /\ released' = IF r.scheduled THEN Append(released, r.pending) ELSE released
        /\ pc' = IF r.ret THEN pc + 1 ELSE pc
        /\ tries' = IF r.ret THEN 0 ELSE Min(tries + 1, MaxTries)
        /\ rlast' = Step("proceed", pc, r, r.sim # sim)
  /\ UNCHANGED <<trace, periods, nobserved>>
  /\ UNCHANGED <<gvars, evars, tvars, svars>>

\* a replayer that goes on after default_timeout without marking the event
Timeout_unmarked ==
  /\ trace # <<>> /\ pc <= Len(trace)
  /\ tries = MaxTries
  /\ pc' = pc + 1
  /\ tries' = 0
  /\ periods' = periods + 1
  /\ rlast' = NoCallStep("timeout", pc)
  /\ UNCHANGED <<sim, released, trace, nobserved>>
  /\ UNCHANGED <<gvars, evars, tvars, svars>>

\* default_timeout has passed: the event is marked timed_out and the
\* replayer goes on
Timeout ==
  /\ trace # <<>> /\ pc <= Len(trace)
  /\ ~(trace[pc].class \in InternalClasses /\ whitelisted(trace[pc]))
  /\ tries = MaxTries
  /\ ~TimeoutDisallowed(trace[pc])
  /\ trace' = [trace EXCEPT ![pc].dict = With(trace[pc].dict, "timed_out", PBool(TRUE))]
  /\ pc' = pc + 1
  /\ tries' = 0
  /\ periods' = periods + 1
  /\ rlast' = NoCallStep("timeout", pc)
  /\ UNCHANGED <<sim, released, nobserved>>
  /\ UNCHANGED <<gvars, evars, tvars, svars>>

\* a replayer that never gives up on an event
ReplayerStep_without_timeout == Skip \/ Proceed

\* a step of the replayer
ReplayerStep == Skip \/ Proceed \/ Timeout

NextReplay ==
  \/ LoadTrace
  \/ Observe
  \/ Skip
  \/ Proceed
  \/ Timeout

SpecReplay == Init /\ [][NextReplay]_vars

\* the replayer keeps running
SpecReplayFair == SpecReplay /\ WF_vars(ReplayerStep)

(***************************************************************************)
(* The connectivity tracker as a state machine: intents proceed, and the   *)
(* tracker is written and asked directly, in any order.                    *)
(***************************************************************************)
\* the intent ids (policies) in use
Policies == {17, 18}

\* AddIntent.__init__, the attributes that proceed hands to the tracker
AddIntent(intent_id, src_mac, dst_mac) ==
  [intent_id |-> intent_id, src_mac |-> src_mac, dst_mac |-> dst_mac]

\* RemoveIntent.__init__
RemoveIntent(intent_id) == [intent_id |-> intent_id]

\* the AddIntent events: from h1 to h2, from h2 to h1, and from h1 to an
\* address that no host owns
Intents ==
  {AddIntent(p, "00:01", "00:02") : p \in Policies}
  \cup {AddIntent(p, "00:02", "00:03") : p \in Policies}
  \cup {AddIntent(17, "00:01", "00:09")}

\* what add_connected_hosts / add_disconnected_hosts are called with
DirectRecords ==
  LET h1 == TrackedHosts[1]
      h2 == TrackedHosts[2]
  IN {<<h1, h1.interfaces[1], h2, h2.interfaces[1], p>> : p \in Policies}

\* the pairs is_connected is asked about
HostPairs ==
  {<<TrackedHosts[1], TrackedHosts[2]>>, <<TrackedHosts[2], TrackedHosts[1]>>,
   <<TrackedHosts[1], PNone>>}

\* one operation on the tracker
TrackerCall(op, arg, r) ==
  /\ tracker' = r.t
  /\ tlast' = [op |-> op, arg |-> arg, ret |-> r.ret, pre |-> tracker]
  /\ UNCHANGED <<gvars, evars, rvars, svars>>

\* one proceed() of an intent event: answer is what the controller
\* returned to add_intent / remove_intent
IntentCall(op, arg, answer, r) ==
  /\ tracker' = r.t
  /\ tlast' = [op |-> op, arg |-> arg, ret |-> r.ret, pre |-> tracker, answer |-> answer]
  /\ UNCHANGED <<gvars, evars, rvars, svars>>

AddIntentProceeds ==
  \E e \in Intents, ret \in BOOLEAN :
    IntentCall("AddIntent", e, ret, AddIntent_proceed(tracker, e, ret))
RemoveIntentProceeds ==
  \E p \in Policies, ret \in BOOLEAN :
    IntentCall("RemoveIntent", RemoveIntent(p), ret,
               RemoveIntent_proceed(tracker, RemoveIntent(p), ret))
AddConnectedHosts ==
  \E a \in DirectRecords :
    TrackerCall("add_connected_hosts", a,
                TRet(add_connected_hosts(tracker, a[1], a[2], a[3], a[4], a[5]), "None"))
AddDisconnectedHosts ==
  \E a \in DirectRecords :
    TrackerCall("add_disconnected_hosts", a,
                TRet(add_disconnected_hosts(tracker, a[1], a[2], a[3], a[4], a[5]), "None"))
RemovePolicy ==
  \E p \in Policies :
    TrackerCall("remove_policy", p, TRet(remove_policy(tracker, p), "None"))
IsConnected ==
  \E a \in HostPairs :
    TrackerCall("is_connected", a, TRet(tracker, is_connected(tracker, a[1], a[2])))

NextTracker ==
  \/ AddIntentProceeds
  \/ RemoveIntentProceeds
  \/ AddConnectedHosts
  \/ AddDisconnectedHosts
  \/ RemovePolicy
  \/ IsConnected

\* a tracker is constructed with either default
InitAnyTracker ==
  /\ InitGraph /\ InitEvents /\ InitReplay /\ InitSimulation
  /\ tracker \in {ConnectivityTracker(d) : d \in BOOLEAN}
  /\ tlast = NoTrackerCall

SpecTracker == InitAnyTracker /\ [][NextTracker]_vars

(***************************************************************************)
(* The controller sync callback and DeterministicValue.proceed             *)
(***************************************************************************)
\* the requests one controller issues at most
MaxRequests == 2

\* controller_sync_callback.pending_deterministic_value_request(cid)
pending_deterministic_value_request(sy, controller_id) == sy.pending[controller_id] > 0

\* controller_sync_callback.send_deterministic_value(cid, value): the reply
\* to the oldest pending request of the controller
send_deterministic_value(sy, controller_id, value) ==
  [sy EXCEPT !.pending[controller_id] = @ - 1,
             !.replies[controller_id] = Append(@, value)]

\* the outcome of a proceed(): the service it leaves, what it returned or
\* raised, and the calls it made on the service
PRet(state, ret, did) == [state |-> state, ret |-> ret, did |-> did]

\* DeterministicValue.proceed that replies without looking for a request
DeterministicValue_proceed_unasked(sy, e) ==
  PRet(send_deterministic_value(sy, e.dict["controller_id"], e.dict["value"]), "True",
       <<<<"send_deterministic_value", e.dict["controller_id"], e.dict["value"]>>>>)

\* DeterministicValue.proceed
DeterministicValue_proceed(sy, e) ==
  IF pending_deterministic_value_request(sy, e.dict["controller_id"])
    THEN PRet(send_deterministic_value(sy, e.dict["controller_id"], e.dict["value"]), "True",
              <<<<"send_deterministic_value", e.dict["controller_id"], e.dict["value"]>>>>)
    ELSE PRet(sy, "False", <<>>)

\* the value that the trace records for gettimeofday
RecordedTime == PList(<<PInt(42), PInt(17)>>)

\* the DeterministicValue events of the traces
ValueEvents ==
  {Ev(NewCall("DeterministicValue", DeterministicValueArgs(c, "gettimeofday", RecordedTime)),
      <<"i", "1">>) : c \in ControllerIds}
  \cup {Ev(NewCall("DeterministicValue", DeterministicValueArgs(Cid(1), "rand", PInt(4))),
           <<"i", "2">>),
        Ev(NewCall("DeterministicValue",
                   DeterministicValueArgs(Cid(1), "rand", PList(<<PInt(1), PInt(2)>>))),
           <<"i", "3">>)}

\* one proceed() on the simulation
Proceeds(op, e, before, r) ==
  slast' = [op |-> op, arg |-> e, ret |-> r.ret, did |-> r.did, pre |-> before]

\* a controller asks for a deterministic value
Request ==
  \E c \in ControllerIds :
    /\ sync.requested[c] < MaxRequests
    /\ sync' = [sync EXCEPT !.pending[c] = @ + 1, !.requested[c] = @ + 1]
    /\ slast' = [op |-> "request", arg |-> c, ret |-> "None", did |-> <<>>, pre |-> sync]
    /\ UNCHANGED <<connections, violation_tracker, flags>>
    /\ UNCHANGED <<gvars, evars, rvars, tvars>>

DeterministicValueProceeds ==
  \E e \in ValueEvents :
    LET r == DeterministicValue_proceed(sync, e)
    IN /\ sync' = r.state
       /\ Proceeds("DeterministicValue", e, sync, r)
       /\ UNCHANGED <<connections, violation_tracker, flags>>
       /\ UNCHANGED <<gvars, evars, rvars, tvars>>

NextSync ==
  \/ Request
  \/ DeterministicValueProceeds

SpecSync == Init /\ [][NextSync]_vars

(***************************************************************************)
(* ControlChannelBlock / ControlChannelUnblock                             *)
(***************************************************************************)
\* ControlChannelBlock.__init__ / ControlChannelUnblock.__init__
ControlChannelBlock(dpid, controller_id) ==
  [class |-> "ControlChannelBlock", dpid |-> dpid, controller_id |-> controller_id]
ControlChannelUnblock(dpid, controller_id) ==
  [class |-> "ControlChannelUnblock", dpid |-> dpid, controller_id |-> controller_id]

\* io_worker.block() / io_worker.unblock() of a connection
block(conns, c) == [conns EXCEPT ![c].currently_blocked = TRUE]
unblock(conns, c) == [conns EXCEPT ![c].currently_blocked = FALSE]

\* ControlChannelBlock.proceed that blocks without looking
ControlChannelBlock_proceed_unguarded(conns, e) ==
  LET connection == get_connection(e.dpid, e.controller_id)
  IN PRet(block(conns, connection), "True", <<"block">>)

\* ControlChannelBlock.proceed
ControlChannelBlock_proceed(conns, e) ==
  LET connection == get_connection(e.dpid, e.controller_id)
  IN IF conns[connection].currently_blocked THEN PRet(conns, "True", <<>>)
     ELSE PRet(block(conns, connection), "True", <<"block">>)

\* ControlChannelUnblock.proceed
ControlChannelUnblock_proceed(conns, e) ==
  LET connection == get_connection(e.dpid, e.controller_id)
  IN IF ~conns[connection].currently_blocked THEN PRet(conns, "True", <<>>)
     ELSE PRet(unblock(conns, connection), "True", <<"unblock">>)

BlockProceeds ==
  \E d \in ChannelDpids, c \in ControllerIds :
    LET r == ControlChannelBlock_proceed(connections, ControlChannelBlock(d, c))
    IN /\ connections' = r.state
       /\ Proceeds("ControlChannelBlock", ControlChannelBlock(d, c), connections, r)
       /\ UNCHANGED <<sync, violation_tracker, flags>>
       /\ UNCHANGED <<gvars, evars, rvars, tvars>>

UnblockProceeds ==
  \E d \in ChannelDpids, c \in ControllerIds :
    LET r == ControlChannelUnblock_proceed(connections, ControlChannelUnblock(d, c))
    IN /\ connections' = r.state
       /\ Proceeds("ControlChannelUnblock", ControlChannelUnblock(d, c), connections, r)
       /\ UNCHANGED <<sync, violation_tracker, flags>>
       /\ UNCHANGED <<gvars, evars, rvars, tvars>>

NextChannel ==
  \/ BlockProceeds
  \/ UnblockProceeds

SpecChannel == Init /\ [][NextChannel]_vars

(***************************************************************************)
(* CheckInvariants.proceed and the violation tracker                       *)
(***************************************************************************)
\* violation_tracker.track(violations, logical_round)
track(vt, violations, logical_round) ==
  [now |-> violations, before |-> vt.now, round |-> logical_round]

\* violation_tracker.persistent_violations: the violations of the last
\* check that the check before it reported too
persistent_violations(vt) ==
  SelectSeq(vt.now, LAMBDA v : \E i \in 1..Len(vt.before) : vt.before[i] = v)

\* hasattr(simulation, name) and simulation.<name>
Flag(fl, name) == fl[name] # Absent /\ fl[name].v

\* CheckInvariants.proceed that never interrupts
CheckInvariants_proceed_never_interrupts(vt, fl, e, result) ==
  IF result.raised THEN PRet(vt, "ValueError", <<>>)
  ELSE LET violations == result.violations
           vt2 == track(vt, violations, e.dict["logical_round"])
           did == <<<<"track", violations, e.dict["logical_round"]>>>>
       IN PRet(vt2, IF violations = <<>> THEN "True" ELSE "False", did)

\* CheckInvariants.proceed; `result` is what self.invariant_check
\* (simulation) did: it returned a list of violations or raised NameError
CheckInvariants_proceed(vt, fl, e, result) ==
  IF result.raised THEN PRet(vt, "ValueError", <<>>)
  ELSE LET violations == result.violations
           vt2 == track(vt, violations, e.dict["logical_round"])
           did == <<<<"track", violations, e.dict["logical_round"]>>>>
           persistent == persistent_violations(vt2)
           ret_value == IF violations = <<>> THEN "True" ELSE "False"
       IN IF violations # <<>> /\ "invariant_check_name" \notin DOMAIN e.dict
            THEN \* self.invariant_check_name in the message of msg.fail
                 PRet(vt2, "AttributeError", did)
          ELSE IF violations # <<>> /\ Flag(fl, "fail_to_interactive")
            THEN PRet(vt2, "KeyboardInterrupt", did)
          ELSE IF /\ persistent # <<>>
                  /\ Flag(fl, "fail_to_interactive_on_persistent_violations")
            THEN PRet(vt2, "KeyboardInterrupt", did)
          ELSE PRet(vt2, ret_value, did)

\* the CheckInvariants events of the traces: a named check, and a check
\* given as a function (a trace of an older format)
CheckEvents ==
  {Ev(NewCall("CheckInvariants",
              "invariant_check_name" :> PStr(<<"InvariantChecker.check_connectivity">>)),
      <<"e", "1">>),
   Ev([class |-> "CheckInvariants",
       args |-> ("invariant_check_name" :> PFunction("check_foo")) @@
                ("logical_round" :> PInt(1)) @@ ("event_time" :> T0)],
      <<"e", "2">>)}

\* what an invariant check does: it returns a list of violations, or it
\* raises NameError
CheckResults ==
  {[raised |-> FALSE, violations |-> v] : v \in {<<>>, <<"v1">>, <<"v2">>, <<"v1", "v2">>}}
  \cup {[raised |-> TRUE, violations |-> <<>>]}

CheckInvariantsProceeds ==
  \E e \in CheckEvents, result \in CheckResults :
    LET r == CheckInvariants_proceed(violation_tracker, flags, e, result)
    IN /\ violation_tracker' = r.state
       /\ slast' = [op |-> "CheckInvariants", arg |-> e, ret |-> r.ret, did |-> r.did,
                    pre |-> violation_tracker, result |-> result]
       /\ UNCHANGED <<connections, sync, flags>>
       /\ UNCHANGED <<gvars, evars, rvars, tvars>>

NextInvariants == CheckInvariantsProceeds

\* a simulation is set up with or without each fail_to_interactive
\* attribute
InitAnyFlags ==
  /\ InitGraph /\ InitEvents /\ InitReplay /\ InitTracker
  /\ connections = [c \in ChannelDpids \X ControllerIds |-> [currently_blocked |-> FALSE]]
  /\ sync = [pending |-> [c \in ControllerIds |-> 0],
             requested |-> [c \in ControllerIds |-> 0],
             replies |-> [c \in ControllerIds |-> <<>>]]
  /\ violation_tracker = ViolationTracker
  /\ flags \in [{"fail_to_interactive", "fail_to_interactive_on_persistent_violations"}
                  -> {Absent, PBool(FALSE), PBool(TRUE)}]
  /\ slast = NoProceed

SpecInvariants == InitAnyFlags /\ [][NextInvariants]_vars

(***************************************************************************)
(* PendingStateChange (sts/replay_event.py): the observation of a state    *)
(* change on a controller's sync channel, a namedtuple with its own hash   *)
(* and equality.                                                           *)
(***************************************************************************)
\* PendingStateChange.__new__: lists become tuples
PendingStateChange(controller_id, event_time, fp, name, value) ==
  [type |-> "PendingStateChange",
   controller_id |-> controller_id,
   event_time |-> IF event_time.t = "list" THEN tuple(event_time) ELSE event_time,
   fingerprint |-> IF fp.t = "list" THEN tuple(fp) ELSE fp,
   name |-> name,
   value |-> IF value.t = "list" THEN tuple(value) ELSE value]

\* a _get_regex that does not skip over the class name
_get_regex_whole(p) == p.fingerprint

\* PendingStateChange._get_regex
_get_regex(p) ==
  IF p.fingerprint.t = "tuple" THEN p.fingerprint.v[2] ELSE p.fingerprint

\* hash(x) of a string: a function of its characters
hash(x) == x.v

\* PendingStateChange.__hash__: the sum of two hashes, a function of the
\* pair
PendingStateChange_hash(p) == <<hash(_get_regex(p)), hash(p.controller_id)>>

\* PendingStateChange.__eq__
PendingStateChange_eq(p, other) ==
  IF other.type # p.type THEN FALSE
  ELSE _get_regex(p) = _get_regex(other) /\ p.controller_id = other.controller_id

\* PendingStateChange.__ne__
PendingStateChange_ne(p, other) == ~PendingStateChange_eq(p, other)

\* ControllerStateChange._get_message_fingerprint
_get_message_fingerprint(e) == e.dict["_fingerprint"].v[2]

\* ControllerStateChange.pending_state_change
pending_state_change(e) ==
  PendingStateChange(e.dict["controller_id"], e.dict["event_time"],
                     _get_message_fingerprint(e), e.dict["name"], e.dict["value"])

\* the ways a caller passes the message fingerprint m: bare, after the
\* class name in a tuple, after the class name in a list
Carried(m, how) ==
  CASE how = "bare" -> PStr(<<m>>)
    [] how = "tuple" -> PTuple(<<PStr(<<"ControllerStateChange">>), PStr(<<m>>)>>)
    [] how = "list" -> PList(<<PStr(<<"ControllerStateChange">>), PStr(<<m>>)>>)

\* the observations of the model, each with the message fingerprint it was
\* made of: constructed directly, and of ControllerStateChange events
Observed ==
  {[message |-> m, p |-> PendingStateChange(c, t, Carried(m, how), PStr(<<n>>), v)] :
     m \in {"fp1", "fp2"}, c \in ControllerIds,
     t \in {T0, PList(<<PInt(8), PInt(0)>>)}, how \in {"bare", "tuple", "list"},
     n \in {"n1", "n2"}, v \in {PInt(1), PList(<<PInt(2)>>)}}
  \cup {[message |-> call.args["fingerprint"].v[1],
         p |-> pending_state_change(Ev(call, <<"i", "1">>))] :
          call \in {c \in Calls : c.class = "ControllerStateChange"}}

\* two observations are at hand
InitPending ==
  /\ InitGraph /\ InitEvents /\ InitReplay /\ InitTracker
  /\ connections = [c \in ChannelDpids \X ControllerIds |-> [currently_blocked |-> FALSE]]
  /\ sync = [pending |-> [c \in ControllerIds |-> 0],
             requested |-> [c \in ControllerIds |-> 0],
             replies |-> [c \in ControllerIds |-> <<>>]]
  /\ violation_tracker = ViolationTracker
  /\ flags = [n \in {"fail_to_interactive", "fail_to_interactive_on_persistent_violations"}
                |-> Absent]
  /\ \E a, b \in Observed :
       slast = [op |-> "observed", arg |-> <<a, b>>, ret |-> "None", did |-> <<>>,
                pre |-> <<>>]

\* the two observations are compared and hashed
Compare ==
  /\ slast.op = "observed"
  /\ LET a == slast.arg[1]
         b == slast.arg[2]
     IN slast' = [op |-> "PendingStateChange.__eq__", arg |-> <<a, b>>,
                  ret |-> IF PendingStateChange_eq(a.p, b.p) THEN "True" ELSE "False",
                  did |-> <<PendingStateChange_hash(a.p), PendingStateChange_hash(b.p),
                            PendingStateChange_ne(a.p, b.p)>>,
                  pre |-> <<>>]
  /\ UNCHANGED <<connections, sync, violation_tracker, flags>>
  /\ UNCHANGED <<gvars, evars, rvars, tvars>>

NextPending == Compare

SpecPending == InitPending /\ [][NextPending]_vars

(***************************************************************************)
(* class Graph as a state machine of its own: nodes and edges are added    *)
(* and removed, as GraphTest does.                                         *)
(***************************************************************************)
\* the vertices v1, v2, v3 of GraphTest
Vertices == {IntId(1), IntId(2), IntId(3)}

\* the pairs of vertices that edges are added between
VertexPairs ==
  {<<IntId(1), IntId(2)>>, <<IntId(2), IntId(1)>>, <<IntId(2), IntId(3)>>,
   <<IntId(3), IntId(3)>>}

\* graph.add_node(v)
GraphAddNode == \E v \in Vertices : Call("Graph.add_node", v, FALSE, Ret(add_node(G, v, NoAttrs), TRUE))

\* graph.add_edge(v1, v2)
GraphAddEdge ==
  \E e \in VertexPairs : Call("Graph.add_edge", e, FALSE, Ret(add_edge(G, e[1], e[2], NoAttrs), TRUE))

\* graph.remove_edge(v1, v2)
GraphRemoveEdge ==
  \E e \in VertexPairs : Call("Graph.remove_edge", e, FALSE, remove_edge(G, e[1], e[2]))

\* graph.remove_node(v, remove_edges=b)
GraphRemoveNode ==
  \E v \in Vertices, b \in BOOLEAN :
    Call("Graph.remove_node", <<v, b>>, FALSE, remove_node(G, v, b))

NextPlainGraph ==
  \/ GraphAddNode
  \/ GraphAddEdge
  \/ GraphRemoveEdge
  \/ GraphRemoveNode

SpecPlainGraph == Init /\ [][NextPlainGraph]_vars

(***************************************************************************)
(* DataplaneDrop.proceed (sts/replay_event.py) on the patch panel of the   *)
(* simulation.  The patch panel is not part of the sources at hand: it     *)
(* buffers the dataplane events in flight, get_buffered_dp_event(fprint)   *)
(* returns the buffered event of that fingerprint or None, and             *)
(* drop_dp_event(event) takes the event out of the buffer.                 *)
(***************************************************************************)
\* patch_panel.get_buffered_dp_event(fprint)
get_buffered_dp_event(pp, fprint) ==
  IF \E i \in 1..Len(pp) : pp[i].fingerprint = fprint
    THEN pp[CHOOSE i \in 1..Len(pp) :
              /\ pp[i].fingerprint = fprint
              /\ \A j \in 1..(i - 1) : pp[j].fingerprint # fprint]
    ELSE PNone

\* patch_panel.drop_dp_event(dp_event)
drop_dp_event(pp, dp_event) == RemoveFirst(pp, dp_event)

\* a DataplaneDrop.proceed that does not look at self.passive
DataplaneDrop_proceed_never_passive(s, e) ==
  LET fprint == PTuple(Tail(fingerprint(e).v))
      dp_event == get_buffered_dp_event(s.patch_panel, fprint)
  IN IF dp_event # PNone
       THEN PRet([s EXCEPT !.patch_panel = drop_dp_event(s.patch_panel, dp_event)],
                 "True",
                 <<<<"get_buffered_dp_event", fprint>>, <<"drop_dp_event", dp_event>>>>)
       ELSE PRet(s, "False", <<<<"get_buffered_dp_event", fprint>>>>)

\* DataplaneDrop.proceed
DataplaneDrop_proceed(s, e) ==
  IF e.dict["passive"].v THEN PRet(s, "True", <<>>)
  ELSE LET fprint == PTuple(Tail(fingerprint(e).v))
           dp_event == get_buffered_dp_event(s.patch_panel, fprint)
       IN IF dp_event # PNone
            THEN PRet([s EXCEPT !.patch_panel = drop_dp_event(s.patch_panel, dp_event)],
                      "True",
                      <<<<"get_buffered_dp_event", fprint>>, <<"drop_dp_event", dp_event>>>>)
            ELSE PRet(s, "False", <<<<"get_buffered_dp_event", fprint>>>>)

\* the DataplaneDrop events of the model: of an icmp and of an arp packet
\* at port 1 of switch 1, passive or not
DropEvents ==
  {Ev(NewCall("DataplaneDrop", With(DataplaneDropArgs(dp, 1, 1, PNone), "passive", PBool(b))),
      <<"e", "1">>) : dp \in {"icmp", "arp"}, b \in BOOLEAN}

\* the fingerprints of the packets in flight: (DPFingerprint, dpid, port_no)
PacketFingerprints ==
  {PTuple(<<DPFingerprint(PDict(dp)), PInt(1), PInt(port_no)>>) :
     dp \in {"icmp", "arp"}, port_no \in 1..2}

\* the patch panel buffers a packet in flight
BufferPacket ==
  /\ nobserved < MaxMessages
  /\ \E f \in PacketFingerprints :
       sim' = [sim EXCEPT !.patch_panel =
                 Append(@, [fingerprint |-> f, packet |-> nobserved + 1])]
  /\ nobserved' = nobserved + 1
  /\ slast' = [op |-> "buffer", arg |-> <<>>, ret |-> "None", did |-> <<>>,
               pre |-> sim.patch_panel]
  /\ UNCHANGED <<released, trace, pc, tries, periods, rlast>>
  /\ UNCHANGED <<connections, sync, violation_tracker, flags>>
  /\ UNCHANGED <<gvars, evars, tvars>>

\* DataplaneDrop.proceed(simulation)
DataplaneDropProceeds ==
  /\ \E e \in DropEvents :
       LET r == DataplaneDrop_proceed(sim, e)
       IN /\ sim' = r.state
          /\ Proceeds("DataplaneDrop", e, sim.patch_panel, r)
  /\ UNCHANGED <<released, trace, pc, tries, periods, nobserved, rlast>>
  /\ UNCHANGED <<connections, sync, violation_tracker, flags>>
  /\ UNCHANGED <<gvars, evars, tvars>>

NextDataplane ==
  \/ BufferPacket
  \/ DataplaneDropProceeds

SpecDataplane == Init /\ [][NextDataplane]_vars

(***************************************************************************)
(* Properties of the topology graph                                        *)
(***************************************************************************)
\* the nodes joined to n by an INTERNAL_LINK edge, in either direction
InternalPeers(g, n) ==
  {m \in DOMAIN g.nodes :
     \/ (has_edge(g, n, m) /\ g.edges[<<n, m>>].etype = INTERNAL_LINK)
     \/ (has_edge(g, m, n) /\ g.edges[<<m, n>>].etype = INTERNAL_LINK)}

\* the edges that have n as an endpoint
EdgesAt(g, n) == {e \in DOMAIN g.edges : n \in {e[1], e[2]}}

\* C1: in every reachable state every PORT node has exactly one SWITCH peer
\* via INTERNAL_LINK edges and every INTERFACE node has exactly one HOST
\* peer via INTERNAL_LINK edges.
C1_OnePeer ==
  \A n \in DOMAIN nodes :
    /\ nodes[n].ntype = PORT =>
         Cardinality({m \in InternalPeers(G, n) : nodes[m].ntype = SWITCH}) = 1
    /\ nodes[n].ntype = INTERFACE =>
         Cardinality({m \in InternalPeers(G, n) : nodes[m].ntype = HOST}) = 1

\* the node ids of a host and of the interfaces of the host object that
\* was stored in graph g
HostIds(g, host) ==
  LET hid == _host_node_id(host)
      its == _interfaces_iterator(g.nodes[hid].obj)
  IN {hid} \cup {its[i].id : i \in 1..Len(its)}

\* C2: whenever remove_host(h) succeeds, the graph has no node for h or for
\* an interface of h and no edge with such a node as an endpoint, and
\* has_host(h) is false; remove_host(h) right after add_host(h) succeeds.
C2_RemoveHostLeavesNothing ==
  /\ (last.op = "remove_host" /\ last.ok) =>
        /\ \A n \in HostIds(pre, last.arg) :
              ~has_node(G, n) /\ EdgesAt(G, n) = {}
        /\ ~has_host(G, last.arg)
  /\ (last.op = "remove_host" /\ last.chained) => last.ok

\* a host with interfaces and with LINK edges at them has been removed
C2_Witness ==
  /\ last.op = "remove_host"
  /\ last.ok
  /\ \E n \in HostIds(pre, last.arg) \ {_host_node_id(last.arg)} :
       \E e \in EdgesAt(pre, n) : is_link(pre, e)

\* the node ids of a switch and of the ports of the switch object that was
\* stored in graph g
SwitchIds(g, switch) ==
  LET sid == _switch_node_id(switch)
      ps == _ports_iterator(g.nodes[sid].obj)
  IN {sid} \cup {ps[k].id : k \in 1..Len(ps)}

\* C3 as stated: remove_switch(s) removes every LINK edge incident to a
\* port of s, with the ports and the switch node, and get_switch_links(s)
\* called afterwards returns an empty collection.
C3_LinksEmptyAfterRemove ==
  (last.op = "remove_switch" /\ last.ok) =>
    /\ \A n \in SwitchIds(pre, last.arg) : ~has_node(G, n) /\ EdgesAt(G, n) = {}
    /\ get_switch_links(G, last.arg).ok
    /\ get_switch_links(G, last.arg).links = {}

\* C3 amended: remove_switch(s) removes every LINK edge incident to a port
\* of s, with the ports and the switch node; get_switch_links(s) called
\* afterwards raises when s carries ports (their nodes are gone), returns
\* an empty collection when s carries none (s given by name), and never
\* returns a link.
C3_NoLinksAfterRemove ==
  (last.op = "remove_switch" /\ last.ok) =>
    /\ \A n \in SwitchIds(pre, last.arg) : ~has_node(G, n) /\ EdgesAt(G, n) = {}
    /\ get_switch_links(G, last.arg).ok <=> (Len(last.arg.ports) = 0)
    /\ get_switch_links(G, last.arg).links = {}

\* a switch with a LINK edge at one of its ports has been removed, through
\* the switch object
C3_Witness ==
  /\ last.op = "remove_switch"
  /\ last.ok
  /\ Len(last.arg.ports) > 0
  /\ \E n \in SwitchIds(pre, last.arg) : \E e \in EdgesAt(pre, n) : is_link(pre, e)

\* C4: after add_link(l, bidir=True) both directed LINK edges between the
\* endpoints of l exist; a remove_link(l) that follows succeeds and leaves
\* no edge between the endpoints in either direction, has_link(l) is
\* false and get_link returns nothing both ways.
C4_BidirAddThenRemove ==
  LET vs == _get_link_nodes(G, last.arg)
  IN /\ (last.op = "add_link" /\ last.ok /\ last.bidir) =>
          /\ get_link(G, vs[1], vs[2]) = last.arg.lid
          /\ get_link(G, vs[2], vs[1]) = last.arg.lid
     /\ (last.op = "remove_link" /\ last.chained) =>
          /\ last.ok
          /\ ~has_edge(G, vs[1], vs[2])
          /\ ~has_edge(G, vs[2], vs[1])
          /\ has_link(G, last.arg) = "False"
          /\ get_link(G, vs[1], vs[2]) = "None"
          /\ get_link(G, vs[2], vs[1]) = "None"

\* remove_link(l) has run right after add_link(l, bidir=True)
C4_Witness ==
  /\ last.op = "remove_link"
  /\ last.chained
  /\ Cardinality(DOMAIN pre.edges) = Cardinality(DOMAIN edges) + 2

\* C5: a LINK edge (a, b) marked bidir=True always has a reverse LINK edge
\* (b, a) that is marked bidir=True and stores the same link object.
C5_BidirSymmetric ==
  \A e \in DOMAIN edges :
    (is_link(G, e) /\ edges[e].bidir) =>
      /\ has_edge(G, e[2], e[1])
      /\ edges[<<e[2], e[1]>>] = edges[e]

\* C6: both endpoints of every LINK edge are nodes typed PORT or INTERFACE.
C6_LinkEndpointsTyped ==
  \A e \in DOMAIN edges :
    is_link(G, e) =>
      /\ has_node(G, e[1]) /\ nodes[e[1]].ntype \in {PORT, INTERFACE}
      /\ has_node(G, e[2]) /\ nodes[e[2]].ntype \in {PORT, INTERFACE}

\* add_host has turned the PORT endpoint of a LINK edge into an INTERFACE
C6_Witness ==
  /\ last.op = "add_host"
  /\ last.ok
  /\ \E e \in DOMAIN edges :
       /\ is_link(G, e)
       /\ pre.nodes[e[1]].ntype = PORT
       /\ nodes[e[1]].ntype = INTERFACE

\* the case of C7: add_link(l2) has succeeded on an ordered pair of
\* endpoints that already carried a LINK edge storing another link l1
SecondLinkAdded ==
  /\ last.op = "add_link"
  /\ last.ok
  /\ ~last.bidir
  /\ LET vs == _get_link_nodes(pre, last.arg)
     IN /\ has_edge(pre, vs[1], vs[2])
        /\ is_link(pre, <<vs[1], vs[2]>>)
        /\ pre.edges[<<vs[1], vs[2]>>].obj # last.arg.lid

\* C7 as stated: after add_link(l1) and add_link(l2) on the same ordered
\* pair of endpoints both links are retained: the pair carries l1 and l2.
C7_BothRetained ==
  SecondLinkAdded =>
    LET vs == _get_link_nodes(pre, last.arg)
    IN /\ last.arg.lid \in Items(links(G))
       /\ pre.edges[<<vs[1], vs[2]>>].obj \in Items(links(G))
       /\ Cardinality(links_iter(G)) = Cardinality(links_iter(pre)) + 1

\* C7 amended: the graph holds one edge per ordered pair of nodes; after
\* add_link(l1) and add_link(l2) on the same ordered pair the edge stores
\* l2 in place of l1, the number of LINK edges is unchanged, and one
\* remove_link (of l1 or of l2) removes that edge.
C7_SecondReplacesFirst ==
  SecondLinkAdded =>
    LET vs == _get_link_nodes(pre, last.arg)
    IN /\ get_link(G, vs[1], vs[2]) = last.arg.lid
       /\ links_iter(G) = links_iter(pre)
       /\ \A e \in links_iter(G) \ {<<vs[1], vs[2]>>} : edges[e] = pre.edges[e]
       /\ \A l \in Links :
            _get_link_nodes(G, l) = vs =>
              /\ remove_link(G, l).ok
              /\ ~has_edge(remove_link(G, l).g, vs[1], vs[2])

\* a second link object has been added over the first
C7_Witness == SecondLinkAdded

\* the two candidate ids of an endpoint (node, vertex) of a link: is the
\* port-scheme id a PORT node, is the interface-scheme id an INTERFACE node
PortCandidate(g, node, vertex) == is_type(g, _port_node_id(node, vertex), PORT)
InterfaceCandidate(g, node, vertex) ==
  is_type(g, _interface_node_id(vertex), INTERFACE)

Endpoints(link) == {<<link.node1, link.port1>>, <<link.node2, link.port2>>}

\* an endpoint of the link has none of its candidates in the graph / both
Neither(g, link) ==
  \E e \in Endpoints(link) :
    ~PortCandidate(g, e[1], e[2]) /\ ~InterfaceCandidate(g, e[1], e[2])
Both(g, link) ==
  \E e \in Endpoints(link) :
    PortCandidate(g, e[1], e[2]) /\ InterfaceCandidate(g, e[1], e[2])

LinkOps == {"add_link", "has_link", "remove_link"}

\* C18 as stated: when an endpoint of the link has neither or both of its
\* candidate ids in the graph, add_link, has_link and remove_link fail with
\* an error.
C18_NeitherOrBothIsError ==
  (last.op \in LinkOps /\ (Neither(pre, last.arg) \/ Both(pre, last.arg)))
    => ~last.ok

\* the id an endpoint resolves to when one of its candidates is present
Chosen(g, node, vertex) ==
  IF PortCandidate(g, node, vertex) THEN _port_node_id(node, vertex)
  ELSE _interface_node_id(vertex)

\* C18 amended: an endpoint resolves to its port-scheme id when that is a
\* PORT node (also when the interface-scheme id is present too), otherwise
\* to its interface-scheme id when that is an INTERFACE node.  When an
\* endpoint has neither, add_link and remove_link fail and leave the graph
\* as it was, and has_link answers False without an error.  Otherwise
\* add_link stores the link on the edge between the two chosen ids,
\* has_link tells whether that edge is a link, and remove_link succeeds
\* exactly when it is and removes it.
C18_PortFirst ==
  last.op \in LinkOps =>
    LET l == last.arg
        a == Chosen(pre, l.node1, l.port1)
        b == Chosen(pre, l.node2, l.port2)
        linked == has_edge(pre, a, b) /\ pre.edges[<<a, b>>].etype = LINK
    IN /\ Neither(pre, l) =>
            /\ last.op \in {"add_link", "remove_link"} => (~last.ok /\ G = pre)
            /\ last.op = "has_link" => last.ret = "False"
       /\ ~Neither(pre, l) =>
            /\ last.op = "add_link" =>
                 /\ last.ok
                 /\ has_edge(G, a, b)
                 /\ edges[<<a, b>>] = LinkAttrs(l.lid, last.bidir)
            /\ last.op = "has_link" =>
                 last.ret = (IF linked THEN "True"
                             ELSE IF has_edge(pre, a, b) THEN "Error" ELSE "False")
            /\ last.op = "remove_link" =>
                 /\ last.ok <=> linked
                 /\ last.ok => ~has_edge(G, a, b)

\* has_link found the link of an endpoint that has both candidates in the
\* graph
C18_Witness ==
  /\ last.op = "has_link"
  /\ Both(pre, last.arg)
  /\ last.ret = "True"

\* C19: get_link(a, b) returns the stored link when the edge a->b is a
\* LINK, returns None when there is no edge a->b, raises when the edge a->b
\* is not a LINK; the graph is the same after the call in each case.
C19_GetLink ==
  last.op = "get_link" =>
    LET e == last.arg
    IN /\ G = pre
       /\ (e \in DOMAIN pre.edges /\ pre.edges[e].etype = LINK) =>
            (last.ok /\ last.ret = pre.edges[e].obj)
       /\ e \notin DOMAIN pre.edges => (last.ok /\ last.ret = "None")
       /\ (e \in DOMAIN pre.edges /\ pre.edges[e].etype # LINK) =>
            (~last.ok /\ last.ret = "Error")

\* get_link raised on the edge between a switch or a host and one of its
\* ports or interfaces
C19_Witness ==
  /\ last.op = "get_link"
  /\ last.arg \in DOMAIN pre.edges
  /\ pre.edges[last.arg].etype = INTERNAL_LINK
  /\ ~last.ok

(***************************************************************************)
(* Properties of events                                                    *)
(***************************************************************************)
\* C8: labels are globally unique: no two of the events constructed or
\* decoded so far hold the same label.
C8_LabelsUnique ==
  \A i, j \in 1..Len(labels) : i # j => labels[i] # labels[j]

\* C9: the event that from_json builds from to_json's output has the
\* fingerprint of the event that was written.
C9_RoundTripFingerprint ==
  (elast.op = "from_json" /\ elast.exc = "none") => fingerprint(cur) = fingerprint(orig)

\* the event that a constructor call makes, whatever its label
Made(call) == [class |-> call.class, dict |-> init(call.class, call.args, <<"e", "9">>)]

\* the constructor arguments that the fingerprint property of the class
\* reads (for the classes that keep _fingerprint: that __init__ puts in it)
PayloadArgs(cls) ==
  CASE cls = "SwitchFailure" -> {"dpid"}
    [] cls = "LinkFailure" -> {"start_dpid", "start_port_no", "end_dpid", "end_port_no"}
    [] cls = "ControllerFailure" -> {"controller_id"}
    [] cls = "ControlChannelBlock" -> {"dpid", "controller_id"}
    [] cls = "DataplaneDrop" -> {"fingerprint"}
    [] cls \in ControlMessageClasses -> {"fingerprint", "dpid", "controller_id"}
    [] cls = "ControllerStateChange" -> {"fingerprint", "controller_id"}
    [] cls = "PingEvent" -> {"src_host_id", "dst_host_id"}
    [] OTHER -> {}

\* an event has just been constructed by a caller (not by from_json)
JustConstructed == elast.op = "new" /\ elast.exc = "none"

\* C10 as stated: an event of the same class constructed with any other
\* class-specific arguments has another fingerprint than the event
\* constructed last.
C10_FieldsDiscriminate ==
  JustConstructed =>
    \A c \in Calls :
      (c.class = cur.class /\ c.args # elast.call.args)
        => fingerprint(Made(c)) # fingerprint(cur)

\* the classes whose fingerprint holds a Fingerprint object (OFFingerprint,
\* DPFingerprint) built from the `fingerprint` argument
FingerprintObjectClasses == ControlMessageClasses \cup {"DataplaneDrop"}

\* the arguments of the fingerprint other than that object
PlainPayloadArgs(cls) ==
  IF cls \in FingerprintObjectClasses
    THEN PayloadArgs(cls) \ {"fingerprint"} ELSE PayloadArgs(cls)

\* C10 amended: an event of the same class that differs from the event
\* constructed last in an argument that the class puts in its fingerprint
\* has another fingerprint; one that agrees with it on all of these has the
\* same fingerprint, whatever its other arguments (wait_time of WaitTime;
\* controller_id, name and value of DeterministicValue; name and value of
\* ControllerStateChange), so these do not tell two events apart.
C10_PayloadDiscriminates ==
  JustConstructed =>
    \A c \in Calls :
      c.class = cur.class =>
        /\ (\E k \in PlainPayloadArgs(cur.class) : c.args[k] # elast.call.args[k])
             => fingerprint(Made(c)) # fingerprint(cur)
        /\ (/\ cur.class \notin FingerprintObjectClasses
            /\ \A k \in PayloadArgs(cur.class) : c.args[k] = elast.call.args[k])
             => fingerprint(Made(c)) = fingerprint(cur)

\* C10 witness: LinkFailure(1,1,2,1) has just been constructed, and the calls
\* LinkFailure(1,1,2,2) and the endpoint-swapped LinkFailure(2,1,1,1) give
\* other fingerprints.
C10_Witness ==
  /\ JustConstructed
  /\ elast.call = NewCall("LinkFailure", LinkFailureArgs(1, 1, 2, 1))
  /\ fingerprint(Made(NewCall("LinkFailure", LinkFailureArgs(1, 1, 2, 2)))) # fingerprint(cur)
  /\ fingerprint(Made(NewCall("LinkFailure", LinkFailureArgs(2, 1, 1, 1)))) # fingerprint(cur)

\* the array form of a fingerprint: the tuple as a JSON array, a Fingerprint
\* object in it as its dict
ArrayForm(fp) == json(dictify_fingerprint(fp))

\* C11: the object that to_json writes has a `fingerprint` field, the array
\* form of the fingerprint of the event written.
C11_FingerprintField ==
  (elast.op = "to_json" /\ elast.exc = "none") =>
    /\ "fingerprint" \in DOMAIN wire
    /\ wire["fingerprint"] = ArrayForm(fingerprint(orig))

\* an event has just been built by from_json from a trace line
JustDecoded ==
  elast.op \in {"from_json", "from_json_omitting", "from_json_extra"} /\ elast.exc = "none"

\* C15: no CheckInvariants event built from a trace line holds a function
\* made from the line's contents: the check is named, never embedded.
C15_NoFunctionFromTrace ==
  (JustDecoded /\ cur.class = "CheckInvariants") =>
    /\ elast.call.args["invariant_check_name"].t = "str"
    /\ ~cur.dict["legacy_invariant_check"].v

\* the fields a class requires in a trace line: label, event_time,
\* logical_round and the constructor parameters that have no default
RequiredFields(cls) ==
  {"label", "event_time", "logical_round"} \cup
  (CASE cls = "SwitchFailure" -> {"dpid"}
     [] cls = "LinkFailure" -> {"start_dpid", "start_port_no", "end_dpid", "end_port_no"}
     [] cls = "ControllerFailure" -> {"controller_id"}
     [] cls = "WaitTime" -> {"wait_time"}
     [] cls = "ControlChannelBlock" -> {"dpid", "controller_id"}
     [] cls = "DataplaneDrop" -> {"fingerprint"}
     [] cls = "PingEvent" -> {"src_host_id", "dst_host_id"}
     [] cls = "InvariantViolation" -> {"violations"}
     [] cls \in ControlMessageClasses -> {"dpid", "controller_id", "fingerprint"}
     [] cls = "ControllerStateChange" -> {"controller_id", "fingerprint", "name", "value"}
     [] cls = "DeterministicValue" -> {"controller_id", "name", "value"}
     [] OTHER -> {})

\* C16: from_json of a trace line that lacks a required field raises
\* ValueError naming that field (and so builds no event); a line with an
\* unknown extra field is read without any complaint about fields.
C16_MissingFieldIsValueError ==
  /\ (elast.op = "from_json_omitting" /\ elast.omitted \in RequiredFields(wire["class"].v[1]))
       => (elast.exc = "ValueError" /\ elast.field = elast.omitted)
  /\ elast.op = "from_json_extra" => elast.field = ""

\* the default of the `prunable` parameter of the constructors: True for
\* InputEvent and SpecialEvent classes, False for InternalEvent classes and
\* for PingEvent
DefaultPrunable(cls) == cls \notin InternalClasses \cup {"PingEvent"}

\* C17: from_json of a trace line without `prunable` gives the event the
\* default of its class's constructor; without `timeout_disallowed`, False;
\* an InvariantViolation line without `persistent`, persistent=True.
C17_DecodeDefaults ==
  (elast.op = "from_json_omitting" /\ elast.exc = "none") =>
    /\ elast.omitted = "prunable" => cur.dict["prunable"].v = DefaultPrunable(cur.class)
    /\ (elast.omitted = "timeout_disallowed" /\ "timeout_disallowed" \in DOMAIN cur.dict)
         => ~cur.dict["timeout_disallowed"].v
    /\ (elast.omitted = "persistent" /\ cur.class = "InvariantViolation")
         => cur.dict["persistent"].v

\* the events at hand: the one constructed or decoded last, and the one
\* written last
BothEvents == cur # NoEvent /\ orig # NoEvent

\* an event after assignments to timed_out and logical_round
Aged(e, t, r) == setattr(setattr(e, "timed_out", PBool(t)), "logical_round", PInt(r))

\* C20: two events are equal iff they have the same class and the same
\* label, whatever their other fields; equal events have equal hashes;
\* assigning timed_out or logical_round changes neither the equality of an
\* event with itself or with another event, nor its hash.
C20_EqualityByLabel ==
  BothEvents =>
    /\ __eq__(cur, orig) <=>
         (cur.class = orig.class /\ cur.dict["label"] = orig.dict["label"])
    /\ __ne__(cur, orig) <=> ~__eq__(cur, orig)
    /\ __eq__(cur, orig) => __hash__(cur) = __hash__(orig)
    /\ \A t \in BOOLEAN, r \in 0..MaxEvents :
         /\ __eq__(Aged(cur, t, r), cur)
         /\ __eq__(Aged(cur, t, r), orig) <=> __eq__(cur, orig)
         /\ __eq__(orig, Aged(cur, t, r)) <=> __eq__(orig, cur)
         /\ __hash__(Aged(cur, t, r)) = __hash__(cur)

\* a decoded event equals the event that was written although their other
\* fields differ
C20_Witness ==
  /\ JustDecoded
  /\ __eq__(cur, orig)
  /\ cur.dict # orig.dict

(***************************************************************************)
(* Properties of the replay                                                *)
(***************************************************************************)
\* C12: proceed of ControlMessageSend, ControlMessageReceive and
\* ProcessFlowMod calls schedule only when the waiting predicate answered
\* true for the same pending entry, returns True exactly when it
\* scheduled, and when the message is not waiting returns False and leaves
\* the buffers as they were.
C12_ScheduleOnlyWhileWaiting ==
  (rlast.op = "proceed" /\ trace[rlast.idx].class \in ControlMessageClasses) =>
    /\ rlast.scheduled => rlast.waiting
    /\ rlast.ret <=> rlast.scheduled
    /\ ~rlast.waiting => (~rlast.ret /\ ~rlast.changed)

\* C12 witness: a proceed found its message waiting, scheduled it and
\* returned True.
C12_Witness ==
  /\ rlast.op = "proceed"
  /\ trace[rlast.idx].class \in ControlMessageClasses
  /\ rlast.waiting /\ rlast.scheduled /\ rlast.ret /\ rlast.changed

\* the trace without the marks left by the replayer
Unmarked(t) == [i \in DOMAIN t |-> [t[i] EXCEPT !.dict = With(t[i].dict, "timed_out", PBool(FALSE))]]

\* the trace being replayed is [ControlMessageSend(d1,c1,fp_A),
\* ControlMessageSend(d1,c1,fp_B)]
TraceAB == trace # <<>> /\ Unmarked(trace) = <<SendA, SendB>>

\* the positions at which a message was released
ReleasedAt(p) == {i \in 1..Len(released) : released[i] = p}

\* the event at position i has been marked timed_out
TimedOut(i) == trace[i].dict["timed_out"].v

\* C13: replaying [Send(fp_A), Send(fp_B)], fp_B is released only after fp_A
\* was released or its event timed out; the replayer stays at the fp_A
\* event while its proceed finds fp_A not waiting (fp_B emitted first),
\* goes past it only by a release or a timeout, and at the end of the
\* trace has released fp_B unless the fp_B event timed out too.
C13_SendOrder ==
  TraceAB =>
    /\ \A j \in ReleasedAt(pending_send(SendB)) :
         TimedOut(1) \/ \E i \in ReleasedAt(pending_send(SendA)) : i < j
    /\ pc > 1 => (TimedOut(1) \/ ReleasedAt(pending_send(SendA)) # {})
    /\ (rlast.op = "proceed" /\ rlast.idx = 1 /\ ~rlast.waiting) => pc = 1
    /\ (Done /\ ~TimedOut(2)) => ReleasedAt(pending_send(SendB)) # {}

\* C13 witness: fp_A did not arrive in time, its event is marked timed_out,
\* and fp_B has then been released.
C13_Witness ==
  /\ TraceAB
  /\ TimedOut(1)
  /\ ReleasedAt(pending_send(SendA)) = {}
  /\ ReleasedAt(pending_send(SendB)) # {}

\* no event of the trace has timeout_disallowed set
NoTimeoutDisallowed == \A i \in 1..Len(trace) : ~TimeoutDisallowed(trace[i])

\* the internal events the replayer waits for: those not whitelisted
WaitedFor == {i \in 1..Len(trace) : trace[i].class \in InternalClasses /\ ~whitelisted(trace[i])}

\* at the end of a trace without timeout_disallowed events, replayed
\* against a simulation that produced nothing, every internal event waited
\* for is marked timed_out; the timeout periods spent never exceed the
\* length of the trace
C14_AllTimedOut ==
  /\ (Done /\ NoTimeoutDisallowed /\ nobserved = 0) => \A i \in WaitedFor : TimedOut(i)
  /\ periods <= Len(trace)

\* C14: a replayer given a finite trace without timeout_disallowed events
\* reaches the end of the trace; if the simulation produced no observation,
\* it has then marked every internal event it waited for as timed_out, and
\* it spends at most len(trace) timeout periods.
C14_Progress ==
  /\ [](C14_AllTimedOut)
  /\ (trace # <<>> /\ NoTimeoutDisallowed) ~> Done

\* C14 witness: the end of a trace is reached with nothing observed and an
\* event marked timed_out.
C14_Witness ==
  /\ Done /\ NoTimeoutDisallowed /\ nobserved = 0
  /\ WaitedFor # {}
  /\ \A i \in WaitedFor : TimedOut(i)

(***************************************************************************)
(* Properties of the connectivity tracker                                  *)
(***************************************************************************)
\* the hosts that AddIntent.proceed finds for the addresses of the event
Resolved(e) == ScanHosts(NothingFound, TrackedHosts, 1, e.src_mac, e.dst_mac)

\* the host pairs that policy p connects in tracker t
ConnectedBy(t, p) == {<<r[1], r[3]>> : r \in {x \in t.connected_pairs : x[5] = p}}

\* the records of tracker t, of either ledger, for the pair that belong to
\* another policy than p
OtherRecords(t, pair, p) ==
  {r \in PairRecords(t.connected_pairs, pair[1], pair[2])
         \cup PairRecords(t.disconnected_pairs, pair[1], pair[2]) : r[5] # p}

\* AddIntent has proceeded successfully / RemoveIntent has
IntentAdded == tlast.op = "AddIntent" /\ tlast.ret
IntentRemoved == tlast.op = "RemoveIntent" /\ tlast.ret

\* after a successful AddIntent the hosts are connected and the intent id
\* is a registered policy
AddIntentConnects ==
  IntentAdded =>
    LET f == Resolved(tlast.arg)
    IN /\ is_connected(tracker, f.src_host, f.dst_host)
       /\ tlast.arg.intent_id \in tracker.policies

\* C21 as stated: after AddIntent(p) has proceeded the hosts are connected
\* and p is registered; after a successful RemoveIntent(p) p is not
\* registered and is_connected of the hosts that p connected returns
\* default_connected.
C21_RemoveRestoresDefault ==
  /\ AddIntentConnects
  /\ IntentRemoved =>
       /\ tlast.arg.intent_id \notin tracker.policies
       /\ \A pair \in ConnectedBy(tlast.pre, tlast.arg.intent_id) :
            is_connected(tracker, pair[1], pair[2]) = tracker.default_connected

\* C21 amended: after AddIntent(p) has proceeded the hosts are connected
\* and p is registered; after a successful RemoveIntent(p) p is not
\* registered, no record refers to p, the records of the other policies
\* are as they were, and is_connected of the hosts that p connected
\* returns default_connected when no other policy has a record for that
\* pair (otherwise it answers from the records that remain).
C21_RemoveUndoesIntent ==
  /\ AddIntentConnects
  /\ IntentRemoved =>
       LET p == tlast.arg.intent_id
       IN /\ p \notin tracker.policies
          /\ tracker.connected_pairs = {r \in tlast.pre.connected_pairs : r[5] # p}
          /\ tracker.disconnected_pairs = {r \in tlast.pre.disconnected_pairs : r[5] # p}
          /\ \A pair \in ConnectedBy(tlast.pre, p) :
               IF OtherRecords(tlast.pre, pair, p) = {}
                 THEN is_connected(tracker, pair[1], pair[2]) = tracker.default_connected
                 ELSE is_connected(tracker, pair[1], pair[2]) =
                        is_connected(remove_policy(tlast.pre, p), pair[1], pair[2])

\* RemoveIntent(p) has proceeded on a tracker in which p alone connected
\* two hosts of the topology
C21_Witness ==
  /\ IntentRemoved
  /\ \E pair \in ConnectedBy(tlast.pre, tlast.arg.intent_id) :
       /\ pair[1] # PNone /\ pair[2] # PNone
       /\ OtherRecords(tlast.pre, pair, tlast.arg.intent_id) = {}
       /\ is_connected(tlast.pre, pair[1], pair[2])
       /\ ~tracker.default_connected

\* the pair has a record in the ledger
Recorded(ledger, pair) == PairRecords(ledger, pair[1], pair[2]) # {}

\* C22: is_connected(h1, h2) is true when a connected record exists for the
\* pair, otherwise false when a disconnected record exists, otherwise
\* default_connected.  So after add_connected_hosts(h1,_,h2,_,p) it is
\* true whatever the default and whatever the disconnected records, and
\* after add_disconnected_hosts(h1,_,h2,_,p) with no connected record it is
\* false whatever the default.
C22_IsConnectedOrder ==
  /\ tlast.op = "is_connected" =>
       tlast.ret = (IF Recorded(tracker.connected_pairs, tlast.arg) THEN TRUE
                    ELSE IF Recorded(tracker.disconnected_pairs, tlast.arg) THEN FALSE
                    ELSE tracker.default_connected)
  /\ tlast.op = "add_connected_hosts" =>
       is_connected(tracker, tlast.arg[1], tlast.arg[3])
  /\ (/\ tlast.op = "add_disconnected_hosts"
      /\ ~Recorded(tracker.connected_pairs, <<tlast.arg[1], tlast.arg[3]>>)) =>
       ~is_connected(tracker, tlast.arg[1], tlast.arg[3])

\* is_connected answered true for a pair that has a connected and a
\* disconnected record, in a tracker whose default is false
C22_Witness ==
  /\ tlast.op = "is_connected"
  /\ Recorded(tracker.connected_pairs, tlast.arg)
  /\ Recorded(tracker.disconnected_pairs, tlast.arg)
  /\ ~tracker.default_connected
  /\ tlast.ret

\* the records of tracker t, of either ledger, that refer to policy p
RecordsOf(t, p) == {r \in t.connected_pairs \cup t.disconnected_pairs : r[5] = p}

\* C23: after remove_policy(p) no record of either ledger refers to p, p is
\* not a registered policy, the records and the registration of every
\* other policy are as they were, and is_connected of a pair that only p
\* had records for returns default_connected.
C23_RemovePolicyErases ==
  tlast.op = "remove_policy" =>
    LET p == tlast.arg
    IN /\ RecordsOf(tracker, p) = {}
       /\ p \notin tracker.policies
       /\ tracker.policies = tlast.pre.policies \ {p}
       /\ \A q \in Policies \ {p} :
            /\ {r \in tracker.connected_pairs : r[5] = q}
                 = {r \in tlast.pre.connected_pairs : r[5] = q}
            /\ {r \in tracker.disconnected_pairs : r[5] = q}
                 = {r \in tlast.pre.disconnected_pairs : r[5] = q}
       /\ \A r \in RecordsOf(tlast.pre, p) :
            OtherRecords(tlast.pre, <<r[1], r[3]>>, p) = {} =>
              is_connected(tracker, r[1], r[3]) = tracker.default_connected

\* remove_policy(p) has run on a tracker that held records of p in both
\* ledgers and a record of another policy
C23_Witness ==
  /\ tlast.op = "remove_policy"
  /\ \E r \in tlast.pre.connected_pairs : r[5] = tlast.arg
  /\ \E r \in tlast.pre.disconnected_pairs : r[5] = tlast.arg
  /\ \E r \in tlast.pre.disconnected_pairs : r[5] # tlast.arg
  /\ \E r \in tlast.pre.connected_pairs :
       r[5] = tlast.arg /\ OtherRecords(tlast.pre, <<r[1], r[3]>>, tlast.arg) = {}

(***************************************************************************)
(* Properties of the proceed() methods on the simulation                   *)
(***************************************************************************)
\* C24: DeterministicValue.proceed replies to the controller of the event
\* only when that controller has a request pending; the reply is the value
\* of the event (SyncTime(42, 17) for a recorded gettimeofday of [42, 17]);
\* it answers one request and leaves the other controllers alone; no
\* controller ever gets more replies than it issued requests; without a
\* pending request it returns False and sends nothing.
C24_ReplyOnlyOnRequest ==
  /\ \A c \in ControllerIds : Len(sync.replies[c]) <= sync.requested[c]
  /\ slast.op = "DeterministicValue" =>
       LET c == slast.arg.dict["controller_id"]
           value == slast.arg.dict["value"]
       IN /\ slast.pre.pending[c] > 0 =>
               /\ slast.ret = "True"
               /\ sync.replies[c] = Append(slast.pre.replies[c], value)
               /\ sync.pending[c] = slast.pre.pending[c] - 1
               /\ \A o \in ControllerIds \ {c} :
                    /\ sync.replies[o] = slast.pre.replies[o]
                    /\ sync.pending[o] = slast.pre.pending[o]
               /\ slast.arg.dict["name"] = PStr(<<"gettimeofday">>) =>
                    sync.replies[c][Len(sync.replies[c])] = SyncTime(PInt(42), PInt(17))
          /\ slast.pre.pending[c] = 0 =>
               /\ slast.ret = "False"
               /\ slast.did = <<>>
               /\ sync = slast.pre

\* the request of a controller for gettimeofday has been answered with
\* SyncTime(42, 17)
C24_Witness ==
  /\ slast.op = "DeterministicValue"
  /\ slast.ret = "True"
  /\ slast.arg.dict["name"] = PStr(<<"gettimeofday">>)
  /\ LET c == slast.arg.dict["controller_id"]
     IN sync.replies[c][Len(sync.replies[c])] = SyncTime(PInt(42), PInt(17))

\* C25: ControlChannelBlock.proceed on a blocked connection returns True,
\* calls block() no second time and leaves every connection as it was, so
\* Block;Block leaves the state of Block; ControlChannelUnblock.proceed on
\* a connection that is not blocked returns True, calls unblock() not and
\* leaves every connection as it was.  On a connection in the other state
\* they block or unblock that connection only.
C25_BlockIdempotent ==
  /\ slast.op = "ControlChannelBlock" =>
       LET c == get_connection(slast.arg.dpid, slast.arg.controller_id)
       IN /\ slast.ret = "True"
          /\ connections[c].currently_blocked
          /\ \A o \in DOMAIN connections \ {c} : connections[o] = slast.pre[o]
          /\ slast.pre[c].currently_blocked =>
               (slast.did = <<>> /\ connections = slast.pre)
          /\ ~slast.pre[c].currently_blocked => slast.did = <<"block">>
  /\ slast.op = "ControlChannelUnblock" =>
       LET c == get_connection(slast.arg.dpid, slast.arg.controller_id)
       IN /\ slast.ret = "True"
          /\ ~connections[c].currently_blocked
          /\ \A o \in DOMAIN connections \ {c} : connections[o] = slast.pre[o]
          /\ ~slast.pre[c].currently_blocked =>
               (slast.did = <<>> /\ connections = slast.pre)
          /\ slast.pre[c].currently_blocked => slast.did = <<"unblock">>

\* ControlChannelBlock has proceeded on a connection that was blocked
C25_Witness ==
  /\ slast.op = "ControlChannelBlock"
  /\ slast.pre[get_connection(slast.arg.dpid, slast.arg.controller_id)].currently_blocked
  /\ slast.ret = "True"

\* CheckInvariants has proceeded and its check returned a list
Checked == slast.op = "CheckInvariants" /\ ~slast.result.raised

\* C26: with fail_to_interactive set, CheckInvariants.proceed raises the
\* interrupt on every check that reports a violation or a persistent
\* violation; with the flag not set it does not interrupt on a violation
\* that is not persistent.
C26_FailToInteractive ==
  Checked =>
    LET reported == slast.result.violations # <<>>
        persistent == persistent_violations(violation_tracker) # <<>>
    IN /\ (Flag(flags, "fail_to_interactive") /\ (reported \/ persistent))
            => slast.ret = "KeyboardInterrupt"
       /\ (~Flag(flags, "fail_to_interactive") /\ reported /\ ~persistent)
            => slast.ret # "KeyboardInterrupt"

(***************************************************************************)
(* Properties of the whitelist and of ProcessFlowMod                       *)
(***************************************************************************)
\* a ControlMessageSend or ControlMessageReceive whose OFFingerprint is in
\* the whitelist of the OpenFlow buffer
Whitelistable(e) ==
  /\ e.class \in {"ControlMessageSend", "ControlMessageReceive"}
  /\ in_whitelist(fingerprint(e).v[2])

\* the replayer has passed the event at i without calling its proceed and
\* without waiting
Bypassed(i) == rlast.idx = i => rlast.op = "skip"

\* C27 as stated: for every ControlMessageSend or ControlMessageReceive of
\* the trace whose OFFingerprint is in the whitelist, whitelisted() is true
\* and the replayer advances past it without waiting.
C27_WhitelistBypasses ==
  \A i \in 1..Len(trace) :
    Whitelistable(trace[i]) => (whitelisted(trace[i]) /\ Bypassed(i))

\* C27: a ControlMessageSend or ControlMessageReceive whose OFFingerprint is
\* in the whitelist is whitelisted, and passed without waiting, when its
\* ignore_whitelisted_packets is set (a send also when pass_through_sends
\* is set); with neither set it is not whitelisted.
C27_WhitelistBypassesWhenIgnored ==
  \A i \in 1..Len(trace) :
    LET e == trace[i]
    IN Whitelistable(e) =>
         /\ e.dict["ignore_whitelisted_packets"].v => (whitelisted(e) /\ Bypassed(i))
         /\ (~e.dict["ignore_whitelisted_packets"].v /\ ~e.dict["pass_through_sends"].v)
              => ~whitelisted(e)

\* the replayer has passed a ControlMessageReceive with a whitelisted
\* fingerprint while no message was in the buffer
C27_Witness ==
  /\ rlast.op = "skip"
  /\ trace[rlast.idx].class = "ControlMessageReceive"
  /\ Whitelistable(trace[rlast.idx])
  /\ sim.openflow_buffer = EmptyBuffer

\* the ControlMessageReceive with the attributes of a ProcessFlowMod
AsReceive(e) == [e EXCEPT !.class = "ControlMessageReceive"]

\* proceed of a ProcessFlowMod on the buffer of its switch does what proceed
\* of the ControlMessageReceive does on a network-wide buffer of the same
\* contents
SameProceed(e) ==
  LET dpid == e.dict["dpid"]
      pf == proceed(sim, e)
      pr == proceed([sim EXCEPT !.openflow_buffer = sim.switch_buffer[dpid]], AsReceive(e))
  IN /\ pf.waiting = pr.waiting
     /\ pf.scheduled = pr.scheduled
     /\ pf.pending = pr.pending
     /\ pf.ret = pr.ret
     /\ pf.sim.switch_buffer[dpid] = pr.sim.openflow_buffer

\* C28: for every ProcessFlowMod of the trace, proceed makes the waiting
\* check and the schedule call of ControlMessageReceive.proceed on the
\* buffer of the switch and returns the same, and whitelisted() returns
\* what ControlMessageReceive.whitelisted() returns for the same flags.
C28_SameContractAsReceive ==
  \A i \in 1..Len(trace) :
    trace[i].class = "ProcessFlowMod" =>
      /\ SameProceed(trace[i])
      /\ whitelisted(trace[i]) = whitelisted(AsReceive(trace[i]))

(***************************************************************************)
(* Properties of the label generator                                       *)
(***************************************************************************)
\* this step has drawn a label from the generator (a constructor called
\* without a label)
Generated == label_gen' # label_gen

\* the numeric id the generator has handed out in this step
GeneratedId == label_gen' - 1

\* C29: every id the generator hands out, for either prefix, is greater
\* than every id it has handed out before, is not an id registered by an
\* earlier event (labelled by its caller or by the generator), and is the
\* id of the label the new event carries; it is registered in this step.
C29_GeneratedLabelsFresh ==
  [][Generated =>
       /\ GeneratedId >= label_gen
       /\ GeneratedId \notin all_label_ids
       /\ all_label_ids' = all_label_ids \cup {GeneratedId}
       /\ Len(labels') > Len(labels) =>
            /\ label_id(labels'[Len(labels')]) = GeneratedId
            /\ \A i \in 1..Len(labels) : label_id(labels[i]) # GeneratedId]_vars

\* the generator has passed over an id that an earlier event had
\* registered (its next() would have returned 1, the label of an event
\* labelled e1 by its caller) and has handed out 2 to an internal event
C29_Witness ==
  /\ elast.op = "new"
  /\ elast.gen = 1
  /\ label_gen = 3
  /\ labels = <<(<<"e", "1">>), (<<"i", "2">>)>>

(***************************************************************************)
(* Properties of PendingStateChange                                        *)
(***************************************************************************)
\* two observations have been compared
Compared == slast.op = "PendingStateChange.__eq__"

\* C30: two PendingStateChange values of the same controller_id and the
\* same message fingerprint are equal and have the same hash, whatever
\* their event_time, name and value and whether the fingerprint is carried
\* bare or after a class name; two that differ in controller_id or in
\* message fingerprint are not equal.  __ne__ is the negation of __eq__.
C30_IdentityByFingerprintAndController ==
  Compared =>
    LET a == slast.arg[1]
        b == slast.arg[2]
        same == a.message = b.message /\ a.p.controller_id = b.p.controller_id
    IN /\ same => (slast.ret = "True" /\ slast.did[1] = slast.did[2])
       /\ ~same => slast.ret = "False"
       /\ slast.did[3] = (slast.ret = "False")

\* an observation that carries its fingerprint after the class name was
\* equal to one of another time, name and value that carries it bare
C30_Witness ==
  /\ Compared
  /\ slast.arg[1].p.fingerprint.t = "tuple"
  /\ slast.arg[2].p.fingerprint.t = "str"
  /\ slast.arg[1].p.event_time # slast.arg[2].p.event_time
  /\ slast.arg[1].p.name # slast.arg[2].p.name
  /\ slast.arg[1].p.value # slast.arg[2].p.value
  /\ slast.ret = "True"

(***************************************************************************)
(* Properties of class Graph                                               *)
(***************************************************************************)
\* a function without the keys in a set
Less(f, keys) == [k \in DOMAIN f \ keys |-> f[k]]

\* the edges of the graph before the call that have n as source or
\* destination
Touching(n) == {e \in DOMAIN pre.edges : e[1] = n \/ e[2] = n}

\* C31: remove_node(n, remove_edges=True) of a node of the graph removes n
\* and the edges that have n as source or destination and nothing else;
\* remove_node(n, remove_edges=False) removes n alone when no edge touches
\* n, and raises and leaves nodes and edges as they were when one does.
C31_RemoveNode ==
  (last.op = "Graph.remove_node" /\ last.arg[1] \in DOMAIN pre.nodes) =>
    LET n == last.arg[1]
        with_edges == last.arg[2]
    IN /\ with_edges =>
            /\ last.ok
            /\ nodes = Less(pre.nodes, {n})
            /\ edges = Less(pre.edges, Touching(n))
       /\ (~with_edges /\ Touching(n) = {}) =>
            /\ last.ok
            /\ nodes = Less(pre.nodes, {n})
            /\ edges = pre.edges
       /\ (~with_edges /\ Touching(n) # {}) => (~last.ok /\ G = pre)

\* remove_node(v, remove_edges=False) raised on a node with edges while the
\* graph held an edge that does not touch it
C31_Witness ==
  /\ last.op = "Graph.remove_node"
  /\ ~last.arg[2]
  /\ Touching(last.arg[1]) # {}
  /\ DOMAIN edges \ Touching(last.arg[1]) # {}
  /\ ~last.ok

(***************************************************************************)
(* Properties of the links of the topology graph                           *)
(***************************************************************************)
\* the links that the graph stores as added with bidir=True, and those it
\* stores as added with bidir=False only
BidirLinks(g) == {g.edges[e].obj : e \in {x \in links_iter(g) : g.edges[x].bidir}}
UnidirLinks(g) == Items(links(g)) \ BidirLinks(g)

\* C32: links_iter and links list every LINK edge once and no
\* INTERNAL_LINK edge, a link added with bidir=True is listed twice and a
\* link added with bidir=False once: the number of entries is
\* 2 * (#bidirectional links) + (#unidirectional links).
C32_LinksListedPerDirection ==
  /\ \A e \in DOMAIN edges : e \in links_iter(G) <=> edges[e].etype = LINK
  /\ DOMAIN links(G) = links_iter(G)
  /\ \A l \in BidirLinks(G) : Cardinality({e \in DOMAIN links(G) : links(G)[e] = l}) = 2
  /\ \A l \in UnidirLinks(G) : Cardinality({e \in DOMAIN links(G) : links(G)[e] = l}) = 1
  /\ Cardinality(links_iter(G)) =
       2 * Cardinality(BidirLinks(G)) + Cardinality(UnidirLinks(G))

(***************************************************************************)
(* Properties of DataplaneDrop.proceed                                     *)
(***************************************************************************)
\* the buffered packets, before the call, that carry the fingerprint
\* payload of the event of the call
Matching ==
  {i \in 1..Len(slast.pre) :
     slast.pre[i].fingerprint = PTuple(Tail(fingerprint(slast.arg).v))}

\* C33: a passive DataplaneDrop returns True, asks the patch panel nothing
\* and leaves its buffer as it was; one that is not passive returns True
\* exactly when a buffered packet carries the payload of its fingerprint,
\* and then that one packet is gone from the buffer and every other is
\* still there in its place; otherwise it returns False and the buffer is
\* as it was.
C33_DataplaneDrop ==
  slast.op = "DataplaneDrop" =>
    LET pp == sim.patch_panel
    IN /\ slast.arg.dict["passive"].v =>
            (slast.ret = "True" /\ slast.did = <<>> /\ pp = slast.pre)
       /\ (~slast.arg.dict["passive"].v /\ Matching # {}) =>
            /\ slast.ret = "True"
            /\ \E i \in Matching :
                 pp = SubSeq(slast.pre, 1, i - 1) \o SubSeq(slast.pre, i + 1, Len(slast.pre))
       /\ (~slast.arg.dict["passive"].v /\ Matching = {}) =>
            (slast.ret = "False" /\ pp = slast.pre)

\* a DataplaneDrop that is not passive has dropped one of two buffered
\* packets of its fingerprint and left a packet of another fingerprint
C33_Witness ==
  /\ slast.op = "DataplaneDrop"
  /\ ~slast.arg.dict["passive"].v
  /\ Cardinality(Matching) = 2
  /\ Len(slast.pre) = 3
  /\ Len(sim.patch_panel) = 2
  /\ slast.ret = "True"

(***************************************************************************)
(* Properties of the failing and of the removing calls on the topology     *)
(***************************************************************************)
\* the calls of TopologyGraph that change the graph
Mutations ==
  {"add_host", "add_switch", "add_link", "remove_link", "remove_host", "remove_switch"}

\* C34: a call of add_host, add_switch, add_link, remove_link, remove_host
\* or remove_switch that raises leaves the nodes and the edges of the
\* graph exactly as they were before the call.
C34_FailureLeavesGraph ==
  (last.op \in Mutations /\ ~last.ok) => G = pre

\* C35: a remove_link(l) that returns removes no edge but those that store
\* l: every LINK edge that stores another link is still there with its
\* attrs, and so is every node and every INTERNAL_LINK edge.
C35_RemoveLinkFrame ==
  (last.op = "remove_link" /\ last.ok) =>
    /\ nodes = pre.nodes
    /\ \A e \in DOMAIN pre.edges :
         (pre.edges[e].etype = INTERNAL_LINK \/ pre.edges[e].obj # last.arg.lid) =>
           (e \in DOMAIN edges /\ edges[e] = pre.edges[e])

(***************************************************************************)
(* Properties of the intents that the controller rejects or that name no   *)
(* host                                                                    *)
(***************************************************************************)
\* an AddIntent or a RemoveIntent has proceeded and the controller had
\* returned a false result
Rejected == tlast.op \in {"AddIntent", "RemoveIntent"} /\ ~tlast.answer

\* C36: when controller.add_intent or controller.remove_intent returns a
\* false result, proceed returns that result and the connectivity tracker
\* is as it was: no record added, no policy registered, no policy and no
\* record removed.
C36_RejectedIntentLeavesTracker ==
  Rejected => (tlast.ret = tlast.answer /\ tracker = tlast.pre)

\* the controller has rejected the removal of a policy that has a record
C36_Witness ==
  /\ Rejected
  /\ tlast.op = "RemoveIntent"
  /\ tlast.arg.intent_id \in tracker.policies
  /\ \E r \in tracker.connected_pairs : r[5] = tlast.arg.intent_id

(***************************************************************************)
(* Properties of what CheckInvariants.proceed tracks and returns           *)
(***************************************************************************)
\* C37: whenever the check returns a list of violations, proceed passes
\* that list and the logical_round of the event to violation_tracker.track
\* before it returns or interrupts; it returns True exactly when the list
\* is empty, and it returns False when the list is not empty and neither
\* fail_to_interactive flag is set.
C37_TracksAndReturns ==
  Checked =>
    LET violations == slast.result.violations
        logical_round == slast.arg.dict["logical_round"]
    IN /\ slast.did = <<<<"track", violations, logical_round>>>>
       /\ violation_tracker = track(slast.pre, violations, logical_round)
       /\ (slast.ret = "True") <=> (violations = <<>>)
       /\ (/\ violations # <<>>
           /\ ~Flag(flags, "fail_to_interactive")
           /\ ~Flag(flags, "fail_to_interactive_on_persistent_violations"))
            => slast.ret = "False"

(***************************************************************************)
(* Properties of the hosts an added intent connects                        *)
(***************************************************************************)
\* C38: the connectivity tracker never stores a connected pair with an
\* absent host or interface: an AddIntent whose src_mac or dst_mac no host
\* of hosts_manager owns adds no record.
C38_OnlyExistingHostsConnected ==
  \A r \in tracker.connected_pairs : \A i \in 1..4 : r[i] # PNone

(***************************************************************************)
(* Properties of two sends that both arrive in time                        *)
(***************************************************************************)
\* the sends pending on connection (d1, c1), in order of arrival
QueuedSends == RelevantQueue(sim.openflow_buffer, pending_send(SendA))

\* [Send(fp_A), Send(fp_B)] is being replayed, the deadline of its first
\* event has not passed, and fp_A and fp_B have been observed in the order
\* of q
BothObserved(q) ==
  /\ TraceAB /\ pc = 1 /\ tries < MaxTries
  /\ QueuedSends = q

\* the two orders of arrival
ArrivalOrders ==
  {<<pending_send(SendA), pending_send(SendB)>>,
   <<pending_send(SendB), pending_send(SendA)>>}

\* both events have been matched and released in trace order, none is
\* marked timed_out and no send stays pending
BothMatched ==
  /\ Done
  /\ ~TimedOut(1) /\ ~TimedOut(2)
  /\ released = <<pending_send(SendA), pending_send(SendB)>>
  /\ QueuedSends = <<>>

\* C39: replaying [Send(fp_A), Send(fp_B)] against a simulation in which
\* fp_A and fp_B are both observed on (d1, c1) before any deadline, in
\* either order of arrival, a proceed of the first event finds its message
\* and, once the simulation produces nothing more, the replay ends with
\* both events matched and released in trace order, none marked timed_out
\* and no observed message left pending.
C39_EitherOrderMatched ==
  /\ [][\A q \in ArrivalOrders :
          (BothObserved(q) /\ rlast'.op = "proceed") => rlast'.ret]_vars
  /\ \A q \in ArrivalOrders :
       (BothObserved(q) /\ nobserved = MaxMessages) ~> BothMatched

====
